---- MODULE Spec2Model ----
(***************************************************************************)
(* Verification model of the browser-interaction recorder:                 *)
(*   - PlaywrightRecorder (src/scripts/process-manager.js, lines 701..)    *)
(*     start/stop life cycle, page-event handlers and the action buffer;   *)
(*   - SelectorGenerator (src/core/recorder/selector-generator.js)         *)
(*     strategy trial, validation against the live page, fallbacks.        *)
(* Every await of the JavaScript source is a boundary between two actions: *)
(* the code between two awaits runs atomically on the event loop.          *)
(***************************************************************************)
EXTENDS Integers, Sequences, FiniteSets, TLC

\* ------------------------------------------------------------------ bounds
\* Number of startRecording calls the caller makes on one recorder.
MaxCalls == 2
\* Number of page events the browser delivers to the recorder.
MaxEvents == 2
\* Number of elements of the page the selector generator works on.
NumElements == 2
\* Number of page round trips that throw during one generateSelector call.
MaxFailures == 2
\* Number of Action Records of a recording given to the action parser.
MaxActions == 4
\* Number of recording child processes the main process spawns.
MaxSpawns == 2
\* Number of stop-recording requests the renderer makes.
MaxStopRequests == 2
\* Number of run() calls made on one TestExecutor.
MaxRuns == 2
\* Number of stop() calls made on one TestExecutor.
MaxTimers == 2

\* ============================================================ RECORDER ===
VARIABLES
  isRecording,      \* this.isRecording
  browser,          \* this.browser   (0 is null, c is the browser launched by call c)
  context,          \* this.context   (0 is null, c is the context created by call c)
  page,             \* this.page      (0 is null, c is the page created by call c)
  testName,         \* this.testName / this.startUrl (0 is unset, c the arguments of call c)
  recordedActions,  \* this.recordedActions
  pageObjects,      \* this.pageObjects: the actions pushed to the page object
  callPc,           \* position of each startRecording call
  stopPc,           \* position of the stopRecording call in progress
  stopResult,       \* what the last stopRecording call gave its caller
  openBrowsers,     \* browser processes that are running
  openContexts,     \* browser contexts that are open
  openPages,        \* pages that are open, the recorder's handlers subscribed
  closing,          \* the handle whose close() the stopRecording call awaits
  delivered,        \* the page events, in the order the pages delivered them
  handlerPc,        \* position of the handler of each delivered event
  artifact,         \* the step generateOutputFiles awaits, or threw at
  written           \* the artifacts the last generateOutputFiles produced

recVars == <<isRecording, browser, context, page, testName, recordedActions,
             pageObjects, callPc, stopPc, stopResult, openBrowsers, openContexts,
             openPages, closing, delivered, handlerPc, artifact, written>>

\* State of the selector generator (a generateSelector call on a page).
VARIABLES
  dom,            \* the page: the children of <body>, in document order
  target,         \* the element handle given to generateSelector (a position of dom)
  cssGlobal,      \* whether the runtime defines the global CSS (browsers do, Node does not)
  selPc,          \* position of the generateSelector call
  strategyIndex,  \* the strategy the loop of generateSelector is at
  failedChecks,   \* strategies whose candidate was rejected by a throwing round trip
  failures,       \* number of page round trips that threw so far
  selResult       \* what generateSelector gave its caller

selVars == <<dom, target, cssGlobal, selPc, strategyIndex, failedChecks, failures,
             selResult>>

\* State of an optimizeActions call of the action parser and of the page-object
\* synthesis of the code generator, on one recorded action list.
VARIABLES
  recording,         \* the Action Record list given to the parser and the generator
  optimizedActions,  \* the local optimizedActions of optimizeActions
  parserPc,          \* the pipeline stage optimizeActions has completed
  run,               \* the number of the optimizeActions call on the list
  firstSteps,        \* the Test Steps the first call returned
  testSteps,         \* the Test Steps the last call returned
  pageObjectsData,   \* what extractPageObjectsFromRecording returned
  pageKeys           \* the page keys computed for a pair of URLs

parVars == <<recording, optimizedActions, parserPc, run, firstSteps, testSteps,
             pageObjectsData, pageKeys>>

\* State of the inference of a method name for one action, by the action parser
\* (generateMethods) and by the code generator (generatePageObjectMethods).
VARIABLES
  naming             \* the action, and the name and the submit class each gave

namVars == <<naming>>

\* State of the Electron main process around the recording child process.
VARIABLES
  recordingProcess,  \* this.recordingProcess (0 is null, p the child process p)
  childState,        \* each child process: not spawned, alive, exited, closed, ...
  killed,            \* the child processes whose .killed is true
  stopRequest,       \* each stop-recording request: its position and its process
  stoppedSent        \* 'recording-stopped' messages sent for each child process

ipcVars == <<recordingProcess, childState, killed, stopRequest, stoppedSent>>

\* State of a TestExecutor and of the Playwright processes it spawns.
VARIABLES
  isRunning,         \* this.isRunning
  currentProcess,    \* this.currentProcess (0 is null, r the process of run r)
  runPc,             \* position of each run() call
  testProcess,       \* each Playwright process: not spawned, alive, exited, ...
  killTimers,        \* pending timers of stop(), with the process stop() signalled
  forcedKills        \* SIGKILLs sent by a timer: the timer's process, the one killed

exeVars == <<isRunning, currentProcess, runPc, testProcess, killTimers, forcedKills>>

appVars == <<ipcVars, exeVars>>

Calls == 1..MaxCalls
Events == 1..MaxEvents

\* Page events the recorder subscribes to (console only re-emits, it records nothing).
EventKinds == {"navigation", "request", "click", "input", "submit", "keydown", "hover"}

\* The key of the page object an action goes to: getPageObjectName of
\* this.page?.url() || this.startUrl, call c recording the URL of its own page.
CurrentPageObject == IF page # 0 THEN page ELSE testName

\* this.recordedActions.push(action); updatePageObject(action) pushes the same
\* action on the page object of the current URL (generatePageObjects defaults true).
recordAction(action) ==
  /\ recordedActions' = Append(recordedActions, action)
  /\ pageObjects' = Append(pageObjects, [name |-> CurrentPageObject, action |-> action])

\* ---- the steps of generateOutputFiles -------------------------------------
\* ensureDirectories, one file per page object, the test file, the summary report.
NoArtifact == [kind |-> "none", name |-> 0]
Directories == [kind |-> "directories", name |-> 0]
PageObjectFile(name) == [kind |-> "pageObject", name |-> name]
TestFile == [kind |-> "test", name |-> 0]
SummaryReport == [kind |-> "summary", name |-> 0]

\* The keys of this.pageObjects.
PageObjectNames == {pageObjects[i].name : i \in DOMAIN pageObjects}

\* for (const [name, pageObject] of this.pageObjects): the next entry of the Map
\* in insertion order (entries added during the loop are visited too).
Unvisited(done) ==
  {i \in DOMAIN pageObjects : PageObjectFile(pageObjects[i].name) \notin done}

\* The step generateOutputFiles awaits once the step art has resolved.
NextArtifact(art, done) ==
  IF art.kind \in {"directories", "pageObject"}
    THEN IF Unvisited(done) # {}
           THEN PageObjectFile(pageObjects[CHOOSE i \in Unvisited(done) :
                                             \A j \in Unvisited(done) : i <= j].name)
           ELSE TestFile
    ELSE SummaryReport

\* The action type recorded for a page event.
ActionType(kind) ==
  CASE kind = "request" -> "api_call"
    [] kind = "keydown" -> "keypress"
    [] OTHER -> kind

RecInit ==
  /\ isRecording = FALSE
  /\ browser = 0
  /\ context = 0
  /\ page = 0
  /\ testName = 0
  /\ recordedActions = <<>>
  /\ pageObjects = <<>>
  /\ callPc = [c \in Calls |-> "none"]
  /\ stopPc = "idle"
  /\ stopResult = "none"
  /\ openBrowsers = {}
  /\ openContexts = {}
  /\ openPages = {}
  /\ closing = 0
  /\ delivered = <<>>
  /\ handlerPc = [e \in Events |-> "none"]
  /\ artifact = NoArtifact
  /\ written = {}

\* ---- startRecording(url, testName) ---------------------------------------
\* Entry: emit status, getBrowserType(), browserType.launch(...) is issued.
\* The method tests nothing before launching.
StartCall(c) ==
  /\ callPc[c] = "none"
  /\ \A d \in Calls : d < c => callPc[d] # "none"
  /\ callPc' = [callPc EXCEPT ![c] = "launch"]
  /\ UNCHANGED <<isRecording, browser, context, page, testName, recordedActions,
                 pageObjects, stopPc, stopResult, openBrowsers, openContexts,
                 openPages, closing, delivered, handlerPc>>
  /\ UNCHANGED <<artifact, written>>
  /\ UNCHANGED <<selVars, parVars, namVars, appVars>>

\* catch (error) { this.emit('error', error); throw error; }
StartThrow(c) ==
  callPc' = [callPc EXCEPT ![c] = "failed"]

\* this.browser = await launch(...); then this.browser.newContext(...) is issued.
LaunchDone(c, ok) ==
  /\ callPc[c] = "launch"
  /\ IF ok
       THEN /\ browser' = c
            /\ openBrowsers' = openBrowsers \cup {c}
            /\ callPc' = [callPc EXCEPT ![c] = "newContext"]
       ELSE /\ StartThrow(c)
            /\ UNCHANGED <<browser, openBrowsers>>
  /\ UNCHANGED <<isRecording, context, page, testName, recordedActions, pageObjects,
                 stopPc, stopResult, openContexts, openPages, closing, delivered,
                 handlerPc>>
  /\ UNCHANGED <<artifact, written>>
  /\ UNCHANGED <<selVars, parVars, namVars, appVars>>

\* this.context = await this.browser.newContext(...); then newPage() is issued.
\* The context cannot be created once its browser is closed.
ContextDone(c, ok) ==
  /\ callPc[c] = "newContext"
  /\ ok => c \in openBrowsers
  /\ IF ok
       THEN /\ context' = c
            /\ openContexts' = openContexts \cup {c}
            /\ callPc' = [callPc EXCEPT ![c] = "newPage"]
       ELSE /\ StartThrow(c)
            /\ UNCHANGED <<context, openContexts>>
  /\ UNCHANGED <<isRecording, browser, page, testName, recordedActions, pageObjects,
                 stopPc, stopResult, openBrowsers, openPages, closing, delivered,
                 handlerPc>>
  /\ UNCHANGED <<artifact, written>>
  /\ UNCHANGED <<selVars, parVars, namVars, appVars>>

\* this.page = await this.context.newPage(); setupPageRecording();
\* isRecording = true; recordedActions = []; testName, startUrl; emits;
\* then this.page.goto(url) is issued.
PageDone(c, ok) ==
  /\ callPc[c] = "newPage"
  /\ ok => c \in openContexts
  /\ IF ok
       THEN /\ page' = c
            /\ openPages' = openPages \cup {c}
            /\ isRecording' = TRUE
            /\ recordedActions' = <<>>
            /\ testName' = c
            /\ callPc' = [callPc EXCEPT ![c] = "goto"]
       ELSE /\ StartThrow(c)
            /\ UNCHANGED <<page, openPages, isRecording, recordedActions, testName>>
  /\ UNCHANGED <<browser, context, pageObjects, stopPc, stopResult, openBrowsers,
                 openContexts, closing, delivered, handlerPc>>
  /\ UNCHANGED <<artifact, written>>
  /\ UNCHANGED <<selVars, parVars, namVars, appVars>>

\* await this.page.goto(url); recordAction({type: 'navigation', ...}); return true
GotoDone(c, ok) ==
  /\ callPc[c] = "goto"
  /\ ok => c \in openPages
  /\ IF ok
       THEN /\ recordAction([type |-> "navigation", event |-> 0])
            /\ callPc' = [callPc EXCEPT ![c] = "done"]
       ELSE /\ StartThrow(c)
            /\ UNCHANGED <<recordedActions, pageObjects>>
  /\ UNCHANGED <<isRecording, browser, context, page, testName, stopPc, stopResult,
                 openBrowsers, openContexts, openPages, closing, delivered, handlerPc>>
  /\ UNCHANGED <<artifact, written>>
  /\ UNCHANGED <<selVars, parVars, namVars, appVars>>

\* ---- stopRecording() ------------------------------------------------------
\* Mutant of StopCall: the flag is not cleared on entry (it would be cleared only
\* by a step that follows a successful generation).
StopCall_FlagNotCleared ==
  /\ stopPc = "idle"
  /\ IF ~isRecording
       THEN /\ stopResult' = "notRecording"
            /\ UNCHANGED stopPc
            /\ UNCHANGED <<artifact, written>>
       ELSE /\ stopPc' = "generate"
            /\ stopResult' = "pending"
            /\ artifact' = Directories
            /\ written' = {}
  /\ UNCHANGED <<isRecording, browser, context, page, testName, recordedActions,
                 pageObjects, callPc, openBrowsers, openContexts, openPages, closing,
                 delivered, handlerPc>>
  /\ UNCHANGED <<selVars, parVars, namVars, appVars>>

\* Mutant of StopCall: the call does not test isRecording and generates anyway.
StopCall_NoGuard ==
  /\ stopPc = "idle"
  /\ isRecording' = FALSE
  /\ stopPc' = "generate"
  /\ stopResult' = "pending"
  /\ artifact' = Directories
  /\ written' = {}
  /\ UNCHANGED <<browser, context, page, testName, recordedActions, pageObjects,
                 callPc, openBrowsers, openContexts, openPages, closing, delivered,
                 handlerPc>>
  /\ UNCHANGED <<selVars, parVars, namVars, appVars>>

\* if (!this.isRecording) throw new Error('No recording in progress');
\* else isRecording = false, emit status, generateOutputFiles() is issued and
\* runs up to the first fs.mkdir of ensureDirectories.
StopCall ==
  /\ stopPc = "idle"
  /\ IF ~isRecording
       THEN /\ stopResult' = "notRecording"
            /\ UNCHANGED <<isRecording, stopPc, artifact, written>>
       ELSE /\ isRecording' = FALSE
            /\ stopPc' = "generate"
            /\ stopResult' = "pending"
            /\ artifact' = Directories
            /\ written' = {}
  /\ UNCHANGED <<browser, context, page, testName, recordedActions, pageObjects,
                 callPc, openBrowsers, openContexts, openPages, closing, delivered,
                 handlerPc>>
  /\ UNCHANGED <<selVars, parVars, namVars, appVars>>

\* if (this.browser) this.browser.close() is issued, else emit 'stopped', return.
StopCloseBrowser ==
  IF browser # 0
    THEN stopPc' = "closeBrowser" /\ closing' = browser /\ UNCHANGED stopResult
    ELSE stopPc' = "idle" /\ closing' = 0 /\ stopResult' = "ok"

\* Inside generateOutputFiles: the awaited step (ensureDirectories, a
\* generatePageObjectFile, generateTestFile) resolves and the next one is issued.
WriteArtifact ==
  /\ stopPc = "generate"
  /\ artifact.kind \in {"directories", "pageObject", "test"}
  /\ written' = written \cup {artifact}
  /\ artifact' = NextArtifact(artifact, written \cup {artifact})
  /\ UNCHANGED <<isRecording, browser, context, page, testName, recordedActions,
                 pageObjects, callPc, stopPc, stopResult, openBrowsers, openContexts,
                 openPages, closing, delivered, handlerPc>>
  /\ UNCHANGED <<selVars, parVars, namVars, appVars>>

\* results = await this.generateOutputFiles(). It resolves when its last step,
\* generateSummaryReport, does: then if (this.context) this.context.close() is
\* issued. It rejects when the step it awaits throws: its catch emits and
\* rethrows, and so does the catch of stopRecording.
GenerateDone(ok) ==
  /\ stopPc = "generate"
  /\ IF ok
       THEN /\ artifact = SummaryReport
            /\ written' = written \cup {artifact}
            /\ artifact' = NoArtifact
            /\ IF context # 0
                 THEN stopPc' = "closeContext" /\ closing' = context
                      /\ UNCHANGED stopResult
                 ELSE StopCloseBrowser
       ELSE /\ stopPc' = "idle"
            /\ stopResult' = "error"
            /\ UNCHANGED <<closing, artifact, written>>
  /\ UNCHANGED <<isRecording, browser, context, page, testName, recordedActions,
                 pageObjects, callPc, openBrowsers, openContexts, openPages, delivered,
                 handlerPc>>
  /\ UNCHANGED <<selVars, parVars, namVars, appVars>>

\* await this.context.close() (a context takes its page with it).
CloseContextDone ==
  /\ stopPc = "closeContext"
  /\ openContexts' = openContexts \ {closing}
  /\ openPages' = openPages \ {closing}
  /\ StopCloseBrowser
  /\ UNCHANGED <<isRecording, browser, context, page, testName, recordedActions,
                 pageObjects, callPc, openBrowsers, delivered, handlerPc>>
  /\ UNCHANGED <<artifact, written>>
  /\ UNCHANGED <<selVars, parVars, namVars, appVars>>

\* await this.browser.close() (a browser takes its contexts with it);
\* emit 'stopped'; return results.
CloseBrowserDone ==
  /\ stopPc = "closeBrowser"
  /\ openBrowsers' = openBrowsers \ {closing}
  /\ openContexts' = openContexts \ {closing}
  /\ openPages' = openPages \ {closing}
  /\ stopPc' = "idle"
  /\ closing' = 0
  /\ stopResult' = "ok"
  /\ UNCHANGED <<isRecording, browser, context, page, testName, recordedActions,
                 pageObjects, callPc, delivered, handlerPc>>
  /\ UNCHANGED <<artifact, written>>
  /\ UNCHANGED <<selVars, parVars, namVars, appVars>>

\* ---- page event handlers --------------------------------------------------
\* The action a handler records for event e.
EventAction(e) ==
  [type |-> ActionType(delivered[e].kind), event |-> e]

\* Page p delivers an event of the given kind: the subscribed handler runs up to
\* its first await.
\*   framenavigated: records when the frame is this.page's main frame;
\*   request (xhr/fetch): records;
\*   keydown (Enter/Escape/Tab): records if isRecording;
\*   click, input, submit, hover: if isRecording, getElementInfo(target) is issued.
Deliver(p, kind) ==
  LET e == Len(delivered) + 1 IN
  /\ Len(delivered) < MaxEvents
  /\ p \in openPages
  /\ delivered' = Append(delivered, [kind |-> kind, page |-> p])
  /\ CASE kind = "navigation" ->
            /\ IF p = page
                 THEN recordAction([type |-> "navigation", event |-> e])
                 ELSE UNCHANGED <<recordedActions, pageObjects>>
            /\ handlerPc' = [handlerPc EXCEPT ![e] = "done"]
       [] kind = "request" ->
            /\ recordAction([type |-> "api_call", event |-> e])
            /\ handlerPc' = [handlerPc EXCEPT ![e] = "done"]
       [] kind = "keydown" ->
            /\ IF isRecording
                 THEN recordAction([type |-> "keypress", event |-> e])
                 ELSE UNCHANGED <<recordedActions, pageObjects>>
            /\ handlerPc' = [handlerPc EXCEPT ![e] = "done"]
       [] OTHER ->
            /\ handlerPc' = [handlerPc EXCEPT ![e] = IF isRecording THEN "info" ELSE "done"]
            /\ UNCHANGED <<recordedActions, pageObjects>>
  /\ UNCHANGED <<isRecording, browser, context, page, testName, callPc, stopPc,
                 stopResult, openBrowsers, openContexts, openPages, closing>>
  /\ UNCHANGED <<artifact, written>>
  /\ UNCHANGED <<selVars, parVars, namVars, appVars>>

\* element = await this.getElementInfo(event.target) (it catches its own errors);
\* then this.selectorGenerator.generateSelector(this.page, event.target) is issued.
InfoDone(e) ==
  /\ handlerPc[e] = "info"
  /\ handlerPc' = [handlerPc EXCEPT ![e] = "selector"]
  /\ UNCHANGED <<isRecording, browser, context, page, testName, recordedActions,
                 pageObjects, callPc, stopPc, stopResult, openBrowsers, openContexts,
                 openPages, closing, delivered>>
  /\ UNCHANGED <<artifact, written>>
  /\ UNCHANGED <<selVars, parVars, namVars, appVars>>

\* selector = await generateSelector(...). A rejection ends the handler. Otherwise
\* the input handler issues event.target.inputValue(), the others record.
SelectorDone(e, ok) ==
  /\ handlerPc[e] = "selector"
  /\ ok => delivered[e].page \in openPages
  /\ IF ok /\ delivered[e].kind # "input"
       THEN recordAction(EventAction(e))
       ELSE UNCHANGED <<recordedActions, pageObjects>>
  /\ handlerPc' = [handlerPc EXCEPT ![e] =
                     IF ok /\ delivered[e].kind = "input" THEN "value" ELSE "done"]
  /\ UNCHANGED <<isRecording, browser, context, page, testName, callPc, stopPc,
                 stopResult, openBrowsers, openContexts, openPages, closing, delivered>>
  /\ UNCHANGED <<artifact, written>>
  /\ UNCHANGED <<selVars, parVars, namVars, appVars>>

\* value: await event.target.inputValue(); then recordAction({type: 'input', ...}).
ValueDone(e, ok) ==
  /\ handlerPc[e] = "value"
  /\ ok => delivered[e].page \in openPages
  /\ IF ok
       THEN recordAction(EventAction(e))
       ELSE UNCHANGED <<recordedActions, pageObjects>>
  /\ handlerPc' = [handlerPc EXCEPT ![e] = "done"]
  /\ UNCHANGED <<isRecording, browser, context, page, testName, callPc, stopPc,
                 stopResult, openBrowsers, openContexts, openPages, closing, delivered>>
  /\ UNCHANGED <<artifact, written>>
  /\ UNCHANGED <<selVars, parVars, namVars, appVars>>

\* ================================================== SELECTOR GENERATOR ===
\* ---- strings as character sequences (for the regular expressions) ---------
Chars(s) ==
  CASE s = "" -> <<>>
    [] s = "save" -> <<"s", "a", "v", "e">>
    [] s = "deadbeef" -> <<"d", "e", "a", "d", "b", "e", "e", "f">>
    [] s = "btn" -> <<"b", "t", "n">>
    [] s = "css-a1b2c3d4" -> <<"c", "s", "s", "-", "a", "1", "b", "2", "c", "3", "d", "4">>
    [] s = "\n" -> <<"\n">>

Digit == {"0", "1", "2", "3", "4", "5", "6", "7", "8", "9"}
LowerHex == {"a", "b", "c", "d", "e", "f"}
UpperHex == {"A", "B", "C", "D", "E", "F"}
LowerLetters == <<"a", "b", "c", "d", "e", "f", "g", "h", "i", "j", "k", "l", "m",
                  "n", "o", "p", "q", "r", "s", "t", "u", "v", "w", "x", "y", "z">>
UpperLetters == <<"A", "B", "C", "D", "E", "F", "G", "H", "I", "J", "K", "L", "M",
                  "N", "O", "P", "Q", "R", "S", "T", "U", "V", "W", "X", "Y", "Z">>
Range(f) == {f[x] : x \in DOMAIN f}
Letter == Range(LowerLetters) \cup Range(UpperLetters)
\* \w
WordChar == Letter \cup Digit \cup {"_"}
\* [a-f0-9] under the i flag
HexChar == Digit \cup LowerHex \cup UpperHex
ToLower(ch) ==
  IF ch \in Range(UpperLetters)
    THEN LowerLetters[CHOOSE k \in DOMAIN UpperLetters : UpperLetters[k] = ch]
    ELSE ch
AllIn(cs, from, to, set) == \A k \in from..to : cs[k] \in set
\* /^prefix/i
StartsWithCI(cs, prefix) ==
  /\ Len(cs) >= Len(prefix)
  /\ \A k \in 1..Len(prefix) : ToLower(cs[k]) = prefix[k]

\* /^[a-f0-9]{8,}$/i
LongHex(cs) == Len(cs) >= 8 /\ AllIn(cs, 1, Len(cs), HexChar)
\* /^\d+$/
PureNumber(cs) == Len(cs) >= 1 /\ AllIn(cs, 1, Len(cs), Digit)
\* /^(react|vue|ng)-/i
FrameworkPrefix(cs) ==
  \/ StartsWithCI(cs, <<"r", "e", "a", "c", "t", "-">>)
  \/ StartsWithCI(cs, <<"v", "u", "e", "-">>)
  \/ StartsWithCI(cs, <<"n", "g", "-">>)
\* /_\d+$/
UnderscoreNumberEnd(cs) ==
  \E k \in 1..(Len(cs) - 1) : cs[k] = "_" /\ AllIn(cs, k + 1, Len(cs), Digit)
\* /^generated/i
GeneratedPrefix(cs) ==
  StartsWithCI(cs, <<"g", "e", "n", "e", "r", "a", "t", "e", "d">>)

isStableId(id) ==
  LET cs == Chars(id) IN
  ~(LongHex(cs) \/ PureNumber(cs) \/ FrameworkPrefix(cs)
      \/ UnderscoreNumberEnd(cs) \/ GeneratedPrefix(cs))

\* /^\w+_\w+_[a-f0-9]+$/i
CssModulePattern(cs) ==
  \E a, b \in 1..Len(cs) :
    /\ 1 < a /\ a + 1 < b /\ b < Len(cs)
    /\ cs[a] = "_" /\ cs[b] = "_"
    /\ AllIn(cs, 1, a - 1, WordChar)
    /\ AllIn(cs, a + 1, b - 1, WordChar)
    /\ AllIn(cs, b + 1, Len(cs), HexChar)
\* /^css-[a-f0-9]+$/i
EmotionPattern(cs) ==
  /\ StartsWithCI(cs, <<"c", "s", "s", "-">>)
  /\ Len(cs) >= 5
  /\ AllIn(cs, 5, Len(cs), HexChar)
\* /^[A-Z][a-zA-Z0-9]{10,}$/
LongPascalCase(cs) ==
  /\ Len(cs) >= 11
  /\ cs[1] \in Range(UpperLetters)
  /\ AllIn(cs, 2, Len(cs), Letter \cup Digit)
\* /^\d/
LeadingDigit(cs) == Len(cs) >= 1 /\ cs[1] \in Digit

\* White space other than the space that may stand in a class attribute.
LineBreaks == {"\n"}

\* The characters of a part of className: those of its pieces, in order.
RECURSIVE ClassChars(_)
ClassChars(part) ==
  IF part = <<>> THEN <<>> ELSE Chars(Head(part)) \o ClassChars(Tail(part))

IsStableClass(className) ==
  LET cs == ClassChars(className) IN
  ~(LongHex(cs) \/ CssModulePattern(cs) \/ EmotionPattern(cs)
      \/ LongPascalCase(cs) \/ LeadingDigit(cs))

RECURSIVE SplitAtSpaces(_, _, _)
\* classString.split(' ').filter(Boolean): the non-empty parts of the string
\* between its spaces; a line break is a character of the part it stands in.
SplitAtSpaces(pieces, current, parts) ==
  LET closed == IF current = <<>> THEN parts ELSE Append(parts, current) IN
  IF pieces = <<>> THEN closed
  ELSE IF Head(pieces) = " " THEN SplitAtSpaces(Tail(pieces), <<>>, closed)
  ELSE SplitAtSpaces(Tail(pieces), Append(current, Head(pieces)), parts)

getStableClasses(classString) ==
  SelectSeq(SplitAtSpaces(classString, <<>>, <<>>), IsStableClass)

\* ---- the page ---------------------------------------------------------------
\* options.maxTextLength
maxTextLength == 30
\* options.preferredAttributes
preferredAttributes == <<"data-testid", "data-test", "data-cy", "id">>

\* Elements of the pages considered. Only input, select and textarea take the
\* name strategy, and aria-label is read only next to a role.
Tags == {"button", "textarea"}
Ids == {"", "save", "deadbeef"}
TestIds == {"", "save-btn"}
Names == {"", "comment"}
Roles == {"", "listbox"}
AriaLabels == {"", "Close"}
Texts == {"", "Save"}
\* element.className: the class tokens and the white space between and after
\* them, as the attribute holds them.
ClassLists == {<<>>, <<"deadbeef", " ", "btn", " ", "css-a1b2c3d4", "\n">>}
TargetElements ==
  {el \in [tagName : Tags, id : Ids, testid : TestIds, name : Names, role : Roles,
           ariaLabel : AriaLabels, textContent : Texts, classes : ClassLists,
           placeholder : {""}, type : {""}] :
     /\ el.name # "" => el.tagName = "textarea"
     /\ el.ariaLabel # "" => el.role # ""}
\* An element of the tag with no attribute and no text.
Bare(tag) ==
  [tagName |-> tag, id |-> "", testid |-> "", name |-> "", role |-> "",
   ariaLabel |-> "", textContent |-> "", classes |-> <<>>, placeholder |-> "",
   type |-> ""]
\* The siblings a target is put next to: a copy of it, an element of its tag
\* that shares only its test id, and the bare elements.
SiblingElements(el) ==
  {el, [Bare(el.tagName) EXCEPT !.testid = el.testid]} \cup {Bare(tag) : tag \in Tags}

\* element.attributes, read at the names the generator asks for.
Attribute(el, attr) ==
  CASE attr = "data-testid" -> el.testid
    [] attr = "id" -> el.id
    [] OTHER -> ""

\* getElementInfo(page, elementHandle): the snapshot of the element at a position.
getElementInfo(pos) ==
  [tagName |-> dom[pos].tagName, id |-> dom[pos].id, classes |-> dom[pos].classes,
   textContent |-> dom[pos].textContent, placeholder |-> dom[pos].placeholder,
   type |-> dom[pos].type, name |-> dom[pos].name, role |-> dom[pos].role,
   ariaLabel |-> dom[pos].ariaLabel, testid |-> dom[pos].testid,
   index |-> pos - 1]

\* ---- selectors ------------------------------------------------------------
\* A selector string, by its form:
\*   attr       [<attr>="<value>"]
\*   id         #<id>
\*   tag-attr   <tag>[<attr>="<value>"]
\*   role       [role="<role>"] and [aria-label="<label>"] when label is given
\*   has-text   <tag>[role="<role>"]:has-text("<text>"), tag and role optional
\*   css        <tag>.<class>...[type="<type>"]
\*   xpath      xpath=//<tag>[@id="<id>" and contains(@class,"<class>") and contains(text(),"<text>")]
\*   composite  <tag>[type="<type>"][name="<name>"]:nth-of-type(<index>)
\*   position   xpath=//body//*[position()=<index>]
EmptySelector ==
  [form |-> "", tag |-> "", attr |-> "", value |-> "", id |-> "", classes |-> <<>>,
   text |-> "", role |-> "", label |-> "", type |-> "", name |-> "", index |-> 0]

Null == [type |-> "null"]

generateTestIdSelector(info) ==
  LET present == {k \in DOMAIN preferredAttributes :
                    Attribute(info, preferredAttributes[k]) # ""} IN
  IF present = {} THEN Null
  ELSE LET first == CHOOSE k \in present : \A m \in present : k <= m
           attr == preferredAttributes[first] IN
       [selector |-> [EmptySelector EXCEPT !.form = "attr", !.attr = attr,
                                           !.value = Attribute(info, attr)],
        type |-> "data-attribute", confidence |-> 90]

\* `#${CSS.escape(elementInfo.id)}`
generateIdSelector(info) ==
  IF info.id # "" /\ isStableId(info.id)
    THEN [selector |-> [EmptySelector EXCEPT !.form = "id", !.id = info.id],
          type |-> "id", confidence |-> 80]
    ELSE Null

\* generateIdSelector evaluates CSS.escape, a ReferenceError where the runtime
\* defines no global CSS.
IdSelectorThrows(info) ==
  info.id # "" /\ isStableId(info.id) /\ ~cssGlobal

generateNameSelector(info) ==
  IF info.name # "" /\ info.tagName \in {"input", "select", "textarea"}
    THEN [selector |-> [EmptySelector EXCEPT !.form = "tag-attr", !.tag = info.tagName,
                                             !.attr = "name", !.value = info.name],
          type |-> "name", confidence |-> 70]
    ELSE Null

generateRoleSelector(info) ==
  IF info.role = "" THEN Null
  ELSE IF info.ariaLabel = "" /\ info.textContent # ""
            /\ Len(info.textContent) <= maxTextLength
    THEN [selector |-> [EmptySelector EXCEPT !.form = "has-text", !.role = info.role,
                                             !.text = info.textContent],
          type |-> "role-text", confidence |-> 75]
    ELSE [selector |-> [EmptySelector EXCEPT !.form = "role", !.role = info.role,
                                             !.label = info.ariaLabel],
          type |-> "role", confidence |-> 60]

\* text = textContent || innerText || value (the elements here have one text).
generateTextSelector(info) ==
  LET text == info.textContent IN
  IF text # "" /\ Len(text) <= maxTextLength
    THEN IF info.tagName \in {"button", "a", "label", "span"}
           THEN [selector |-> [EmptySelector EXCEPT !.form = "has-text",
                                                    !.tag = info.tagName, !.text = text],
                 type |-> "text", confidence |-> 65]
           ELSE [selector |-> [EmptySelector EXCEPT !.form = "has-text", !.text = text],
                 type |-> "text", confidence |-> 50]
    ELSE IF info.placeholder # "" /\ info.tagName \in {"input", "textarea"}
           THEN [selector |-> [EmptySelector EXCEPT !.form = "tag-attr",
                                                    !.tag = info.tagName,
                                                    !.attr = "placeholder",
                                                    !.value = info.placeholder],
                 type |-> "placeholder", confidence |-> 60]
           ELSE Null

generateCssSelector(info) ==
  [selector |-> [EmptySelector EXCEPT
                   !.form = "css", !.tag = info.tagName,
                   !.classes = getStableClasses(info.classes),
                   !.type = IF info.tagName = "input" THEN info.type ELSE ""],
   type |-> "css", confidence |-> 40]

RECURSIVE FirstPart(_)
\* className.split(' ')[0]: the string up to its first space.
FirstPart(pieces) ==
  IF pieces = <<>> \/ Head(pieces) = " " THEN <<>>
  ELSE <<Head(pieces)>> \o FirstPart(Tail(pieces))

generateXPathSelector(info) ==
  [selector |-> [EmptySelector EXCEPT
                   !.form = "xpath", !.tag = info.tagName, !.id = info.id,
                   !.classes = IF info.classes = <<>> THEN <<>>
                               ELSE <<FirstPart(info.classes)>>,
                   !.text = IF Len(info.textContent) <= maxTextLength
                              THEN info.textContent ELSE ""],
   type |-> "xpath", confidence |-> 30]

generateCompositeSelector(info) ==
  [primary |-> [EmptySelector EXCEPT !.form = "composite", !.tag = info.tagName,
                                     !.type = info.type, !.name = info.name,
                                     !.index = info.index + 1],
   type |-> "composite", confidence |-> 20, fallbacks |-> <<>>]

\* ---- page.locator(selector).all() -----------------------------------------
\* The 1-based rank of the element at pos among the siblings of its tag.
NthOfType(pos) ==
  Cardinality({i \in 1..pos : dom[i].tagName = dom[pos].tagName})

\* :has-text("<text>") holds of an element whose text contains the text (the
\* texts of the page are such that one contains another only when equal).
HasText(el, text) == el.textContent # "" /\ el.textContent = text

\* The class tokens of an element (its classList): the attribute split at
\* white space of any kind.
ClassList(el) == Range(el.classes) \ ({" "} \cup LineBreaks)

\* contains(@class, "<part>"): the part stands in the attribute's string.
ContainsPart(pieces, part) ==
  \E from \in 1..(Len(pieces) + 1) :
    /\ from + Len(part) - 1 <= Len(pieces)
    /\ \A k \in 1..Len(part) : pieces[from + k - 1] = part[k]

\* tag.part1.part2[type]: white space inside the selector is a descendant
\* combinator (no element of the page has children) or a syntax error, and
\* white space at its end is ignored.
CssClassesMatch(el, sel) ==
  LET parts == sel.classes
      atEnd(k, i) == /\ k = Len(parts) /\ sel.type = "" /\ i > 1
                     /\ \A j \in i..Len(parts[k]) : parts[k][j] \in LineBreaks
  IN \A k \in DOMAIN parts :
       /\ \A i \in DOMAIN parts[k] : parts[k][i] \in LineBreaks => atEnd(k, i)
       /\ Range(parts[k]) \ LineBreaks \subseteq ClassList(el)

Matches(pos, sel) ==
  LET el == dom[pos] IN
  CASE sel.form = "attr" -> Attribute(el, sel.attr) = sel.value
    [] sel.form = "id" -> el.id = sel.id
    [] sel.form = "tag-attr" ->
         /\ el.tagName = sel.tag
         /\ IF sel.attr = "name" THEN el.name = sel.value
                                 ELSE el.placeholder = sel.value
    [] sel.form = "role" ->
         el.role = sel.role /\ (sel.label # "" => el.ariaLabel = sel.label)
    [] sel.form = "has-text" ->
         /\ sel.tag # "" => el.tagName = sel.tag
         /\ sel.role # "" => el.role = sel.role
         /\ HasText(el, sel.text)
    [] sel.form = "css" ->
         /\ el.tagName = sel.tag
         /\ CssClassesMatch(el, sel)
         /\ sel.type # "" => el.type = sel.type
    [] sel.form = "xpath" ->
         /\ el.tagName = sel.tag
         /\ sel.id # "" => el.id = sel.id
         /\ \A k \in DOMAIN sel.classes : ContainsPart(el.classes, sel.classes[k])
         /\ sel.text # "" => el.textContent = sel.text
    [] sel.form = "composite" ->
         /\ el.tagName = sel.tag
         /\ sel.type # "" => el.type = sel.type
         /\ sel.name # "" => el.name = sel.name
         /\ NthOfType(pos) = sel.index
    [] sel.form = "position" -> pos = sel.index

\* The elements the selector resolves to: positions of dom, and 0 for <body>,
\* which contains every text of the page and so matches a bare :has-text().
Resolve(sel) ==
  {pos \in DOMAIN dom : Matches(pos, sel)}
    \cup (IF /\ sel.form = "has-text" /\ sel.tag = "" /\ sel.role = ""
             /\ \E pos \in DOMAIN dom : HasText(dom[pos], sel.text)
            THEN {0} ELSE {})

\* Mutant of validateSelector: the found element is not compared with the
\* original one and several matches are accepted.
validateSelector_AnyMatch(selectorInfo, roundTripOk) ==
  roundTripOk /\ Resolve(selectorInfo.selector) # {}

\* validateSelector(page, selectorInfo, originalElement): exactly one element is
\* found and it is the original one; a throwing round trip gives false.
validateSelector(selectorInfo, roundTripOk) ==
  /\ roundTripOk
  /\ Cardinality(Resolve(selectorInfo.selector)) = 1
  /\ target \in Resolve(selectorInfo.selector)

\* ---- generateSelector(page, elementHandle) --------------------------------
NumStrategies == 7

\* Mutant of Strategy: the CSS strategy is tried first, the preferred
\* attributes sixth.
Strategy_CssFirst(k, info) ==
  CASE k = 6 -> generateTestIdSelector(info)
    [] k = 2 -> generateIdSelector(info)
    [] k = 3 -> generateNameSelector(info)
    [] k = 4 -> generateRoleSelector(info)
    [] k = 5 -> generateTextSelector(info)
    [] k = 1 -> generateCssSelector(info)
    [] k = 7 -> generateXPathSelector(info)

\* Mutant of Strategy: the id strategy is tried before the preferred attributes.
Strategy_IdFirst(k, info) ==
  CASE k = 2 -> generateTestIdSelector(info)
    [] k = 1 -> generateIdSelector(info)
    [] k = 3 -> generateNameSelector(info)
    [] k = 4 -> generateRoleSelector(info)
    [] k = 5 -> generateTextSelector(info)
    [] k = 6 -> generateCssSelector(info)
    [] k = 7 -> generateXPathSelector(info)

\* The strategies array, in its order.
Strategy(k, info) ==
  CASE k = 1 -> generateTestIdSelector(info)
    [] k = 2 -> generateIdSelector(info)
    [] k = 3 -> generateNameSelector(info)
    [] k = 4 -> generateRoleSelector(info)
    [] k = 5 -> generateTextSelector(info)
    [] k = 6 -> generateCssSelector(info)
    [] k = 7 -> generateXPathSelector(info)

\* The fallbackStrategies array of generateFallbacks, in its order.
FallbackStrategy(k, info) ==
  CASE k = 1 -> generateXPathSelector(info)
    [] k = 2 -> generateCssSelector(info)
    [] k = 3 -> generateTextSelector(info)

\* Mutant of generateFallbacks: a fallback is not compared with the primary.
generateFallbacks_NoPrimaryCheck(primarySelector, errs) ==
  LET info == getElementInfo(target)
      accepted(k) ==
        LET fallback == FallbackStrategy(k, info) IN
        /\ fallback # Null
        /\ validateSelector(fallback, k \notin errs)
      one == IF accepted(1) THEN <<FallbackStrategy(1, info)>> ELSE <<>>
      two == IF accepted(2) THEN Append(one, FallbackStrategy(2, info)) ELSE one
   IN IF Len(two) < 2 /\ accepted(3)
        THEN Append(two, FallbackStrategy(3, info))
        ELSE two

\* generateFallbacks(page, elementHandle, primarySelector): the fallbacks that
\* differ from the primary and validate, the loop stopping at two; errs are the
\* fallback strategies whose validation round trip throws.
generateFallbacks(primarySelector, errs) ==
  LET info == getElementInfo(target)
      accepted(k) ==
        LET fallback == FallbackStrategy(k, info) IN
        /\ fallback # Null
        /\ fallback.selector # primarySelector.selector
        /\ validateSelector(fallback, k \notin errs)
      one == IF accepted(1) THEN <<FallbackStrategy(1, info)>> ELSE <<>>
      two == IF accepted(2) THEN Append(one, FallbackStrategy(2, info)) ELSE one
   IN IF Len(two) < 2 /\ accepted(3)
        THEN Append(two, FallbackStrategy(3, info))
        ELSE two

SelStart ==
  /\ selPc = "start"
  /\ strategyIndex = 0
  /\ failedChecks = {}
  /\ failures = 0
  /\ selResult = Null

SelInit ==
  /\ target \in 1..NumElements
  /\ \E el \in TargetElements :
       \E sib \in [1..NumElements -> SiblingElements(el)] :
         dom = [pos \in 1..NumElements |-> IF pos = target THEN el ELSE sib[pos]]
  /\ cssGlobal \in BOOLEAN
  /\ SelStart

\* A page round trip (page.evaluate, locator.all) answers or throws.
RoundTrip(ok) ==
  /\ ~ok => failures < MaxFailures
  /\ failures' = IF ok THEN failures ELSE failures + 1

\* elementInfo = await this.getElementInfo(page, elementHandle); a throw goes to
\* the catch of generateSelector.
SelGetInfo(ok) ==
  /\ selPc = "start"
  /\ RoundTrip(ok)
  /\ IF ok
       THEN selPc' = "strategies" /\ strategyIndex' = 1
       ELSE selPc' = "catch" /\ UNCHANGED strategyIndex
  /\ UNCHANGED <<dom, target, cssGlobal, failedChecks, selResult>>
  /\ UNCHANGED <<recVars, parVars, namVars, appVars>>

\* One turn of the for loop: selector = await strategy(); if (selector) and it
\* validates, the loop ends with it as the primary. After the last strategy
\* generateCompositeSelector gives the result. A throwing validation round trip
\* is taken where it changes the answer of validateSelector.
TryStrategy(ok) ==
  LET info == getElementInfo(target)
      k == strategyIndex
      cand == Strategy(k, info)
  IN
  /\ selPc = "strategies"
  /\ IF k = 2 /\ IdSelectorThrows(info)
       THEN /\ ok
            /\ selPc' = "catch"
            /\ UNCHANGED <<strategyIndex, failedChecks, failures, selResult>>
       ELSE IF cand # Null /\ validateSelector(cand, ok)
         THEN /\ selPc' = "fallbacks"
              /\ UNCHANGED <<strategyIndex, failedChecks, failures, selResult>>
         ELSE /\ ~ok => (cand # Null /\ validateSelector(cand, TRUE))
              /\ RoundTrip(ok)
              /\ failedChecks' = IF ok THEN failedChecks ELSE failedChecks \cup {k}
              /\ IF k < NumStrategies
                   THEN /\ strategyIndex' = k + 1
                        /\ UNCHANGED <<selPc, selResult>>
                   ELSE /\ selResult' = generateCompositeSelector(info)
                        /\ selPc' = "done"
                        /\ UNCHANGED strategyIndex
  /\ UNCHANGED <<dom, target, cssGlobal>>
  /\ UNCHANGED <<recVars, parVars, namVars, appVars>>

\* fallbacks: await this.generateFallbacks(...), whose own getElementInfo may
\* throw into the catch of generateSelector; then the result is returned.
\* err is the fallback strategy whose validation round trip throws (0: none).
SelFallbacks(infoOk, err) ==
  LET primary == Strategy(strategyIndex, getElementInfo(target)) IN
  /\ selPc = "fallbacks"
  /\ RoundTrip(infoOk /\ err = 0)
  /\ IF infoOk
       THEN /\ err # 0 =>
                 generateFallbacks(primary, {err}) # generateFallbacks(primary, {})
            /\ selResult' = [primary |-> primary.selector, type |-> primary.type,
                             confidence |-> primary.confidence,
                             fallbacks |-> generateFallbacks(primary, {err})]
            /\ selPc' = "done"
       ELSE /\ err = 0
            /\ selPc' = "catch"
            /\ UNCHANGED selResult
  /\ UNCHANGED <<dom, target, cssGlobal, strategyIndex, failedChecks>>
  /\ UNCHANGED <<recVars, parVars, namVars, appVars>>

\* getElementIndex(page, elementHandle): the index among the parent's children.
getElementIndex(pos) == pos - 1

\* catch (error): the positional XPath is built with await getElementIndex(...),
\* which is outside any try.
SelCatch(ok) ==
  /\ selPc = "catch"
  /\ RoundTrip(ok)
  /\ IF ok
       THEN /\ selResult' = [primary |-> [EmptySelector EXCEPT
                                            !.form = "position",
                                            !.index = getElementIndex(target)],
                             type |-> "xpath", confidence |-> 10, fallbacks |-> <<>>]
            /\ selPc' = "done"
       ELSE /\ selResult' = [type |-> "thrown"]
            /\ selPc' = "thrown"
  /\ UNCHANGED <<dom, target, cssGlobal, strategyIndex, failedChecks>>
  /\ UNCHANGED <<recVars, parVars, namVars, appVars>>

SelNext ==
  \/ \E ok \in BOOLEAN : SelGetInfo(ok)
  \/ \E ok \in BOOLEAN : TryStrategy(ok)
  \/ \E infoOk \in BOOLEAN, err \in 0..3 : SelFallbacks(infoOk, err)
  \/ \E ok \in BOOLEAN : SelCatch(ok)

\* The selector generator at rest (the recorder specifications do not run it).
SelIdle ==
  /\ dom = <<>>
  /\ target = 0
  /\ cssGlobal = FALSE
  /\ SelStart

\* The action parser and the code generator at rest (the recorder and selector
\* specifications do not run them).
ParIdle ==
  /\ recording = <<>>
  /\ optimizedActions = <<>>
  /\ parserPc = "idle"
  /\ run = 0
  /\ firstSteps = <<>>
  /\ testSteps = <<>>
  /\ pageObjectsData = <<>>
  /\ pageKeys = <<>>

\* ======================================================= ACTION PARSER ===
\* ---- URLs and page keys -----------------------------------------------------
\* A URL string, as the three parts new URL(url) separates: the scheme and host
\* ("" in a relative URL), the path and the query string.
NoUrl == [origin |-> "", path |-> <<>>, query |-> ""]
Paths ==
  { <<>>,
    <<"/">>,
    <<"/", "l", "o", "g", "i", "n">>,
    <<"/", "l", "o", "g", "i", "n", "/">>,
    <<"/", "u", "s", "e", "r", "-", "P", "r", "o", "f", "i", "l", "e">> }
Urls == [origin : {"", "https://app.test"}, path : Paths, query : {"", "?x=1", "?y=2"}]
LoginUrl == [origin |-> "https://app.test", path |-> <<"/", "l", "o", "g", "i", "n">>,
             query |-> ""]

\* new URL(url) throws a TypeError on a URL with no scheme (no base is given).
UrlThrows(url) == url.origin = ""

\* Mutant of Pathname: the path with the query string.
Pathname_WithSearch(url) ==
  (IF url.path = <<>> THEN <<"/">> ELSE url.path)
    \o (IF url.query = "" THEN <<>> ELSE <<url.query>>)

\* new URL(url).pathname: the path, "/" when the URL has none.
Pathname(url) == IF url.path = <<>> THEN <<"/">> ELSE url.path

ToUpper(ch) ==
  IF ch \in Range(LowerLetters)
    THEN UpperLetters[CHOOSE k \in DOMAIN LowerLetters : LowerLetters[k] = ch]
    ELSE ch

RECURSIVE TrimLeft(_, _)
\* The string without its leading characters of the set.
TrimLeft(cs, set) ==
  IF cs # <<>> /\ Head(cs) \in set THEN TrimLeft(Tail(cs), set) ELSE cs

RECURSIVE TrimRight(_, _)
TrimRight(cs, set) ==
  IF cs # <<>> /\ cs[Len(cs)] \in set
    THEN TrimRight(SubSeq(cs, 1, Len(cs) - 1), set) ELSE cs

\* pathname.split(/[-_\/]/).map(part => part.charAt(0).toUpperCase() +
\* part.slice(1).toLowerCase()).join('')
PascalParts(cs) ==
  LET separators == {"-", "_", "/"}
      cased == [i \in DOMAIN cs |->
                  IF i = 1 \/ cs[i - 1] \in separators
                    THEN ToUpper(cs[i]) ELSE ToLower(cs[i])]
  IN SelectSeq(cased, LAMBDA ch : ch \notin separators)

\* getPageObjectName(url) of the recorder.
getPageObjectName(url) ==
  IF UrlThrows(url) THEN <<"H", "o", "m", "e", "P", "a", "g", "e">>
  ELSE LET trimmed == TrimRight(TrimLeft(Pathname(url), {"/"}), {"/"})
           pathname == IF trimmed = <<>> THEN <<"h", "o", "m", "e">> ELSE trimmed
       IN PascalParts(pathname) \o <<"P", "a", "g", "e">>

\* getPageKey(action) of the code generator; an action without url has NoUrl.
getPageKey(action) ==
  IF action.url = NoUrl \/ UrlThrows(action.url) THEN <<"p", "a", "g", "e">>
  ELSE LET stripped == SelectSeq(Pathname(action.url),
                                 LAMBDA ch : ch \in Letter \cup Digit)
       IN IF stripped = <<>> THEN <<"h", "o", "m", "e">> ELSE stripped

\* Two URLs are given; the recorder names the page object of each and the
\* generator computes the page key of an action of each.
PageKeysInit ==
  /\ \E a, b \in Urls : pageKeys = [urls |-> <<a, b>>, names |-> <<>>, keys |-> <<>>]
  /\ recording = <<>>
  /\ optimizedActions = <<>>
  /\ parserPc = "idle"
  /\ run = 0
  /\ firstSteps = <<>>
  /\ testSteps = <<>>
  /\ pageObjectsData = <<>>

\* updatePageObject: pageObjectName = this.getPageObjectName(currentUrl)
RecorderNames ==
  /\ pageKeys # <<>>
  /\ pageKeys.names = <<>>
  /\ pageKeys' = [pageKeys EXCEPT !.names =
                    [k \in 1..2 |-> getPageObjectName(pageKeys.urls[k])]]
  /\ UNCHANGED <<recording, optimizedActions, parserPc, run, firstSteps, testSteps,
                 pageObjectsData>>
  /\ UNCHANGED <<recVars, selVars, namVars, appVars>>

\* extractPageObjectsFromRecording: pageKey = this.getPageKey(action)
GeneratorKeys ==
  /\ pageKeys # <<>>
  /\ pageKeys.keys = <<>>
  /\ pageKeys' = [pageKeys EXCEPT !.keys =
                    [k \in 1..2 |-> getPageKey([url |-> pageKeys.urls[k]])]]
  /\ UNCHANGED <<recording, optimizedActions, parserPc, run, firstSteps, testSteps,
                 pageObjectsData>>
  /\ UNCHANGED <<recVars, selVars, namVars, appVars>>

PageKeysNext == RecorderNames \/ GeneratorKeys

\* ---- the recorded Action Records -------------------------------------------
\* The parent of an element descriptor that names none (the descriptor of the
\* recorder's getElementInfo), and a form that is the parent of its controls
\* (the descriptor of SelectorGenerator.getElementInfo names it).
NoParent == [tagName |-> "", id |-> "", className |-> ""]
SearchForm == [tagName |-> "form", id |-> "search", className |-> ""]

\* The fields optimizeActions reads of an element descriptor: tagName, id,
\* textContent, attributes.type, attributes.name, parent.
NoElement ==
  [tagName |-> "", id |-> <<>>, type |-> "", name |-> <<>>, textContent |-> <<>>,
   parent |-> NoParent]

\* The description of a record that is not a form_sequence.
NoDescription == [fields |-> 0, submit |-> FALSE]

\* An Action Record with no field set; the fields of the synthetic records
\* (form_sequence: actions, description; wait: strategy, timeout; navigation
\* after look-ahead: expectedElements) are part of the shape.
EmptyAction ==
  [type |-> "", selector |-> "", element |-> NoElement, value |-> "", url |-> NoUrl,
   timestamp |-> 0, actions |-> <<>>, description |-> NoDescription, strategy |-> "",
   timeout |-> 0, expectedElements |-> <<>>]

UserField == [NoElement EXCEPT !.tagName = "input", !.id = <<"u", "s", "e", "r">>,
                               !.type = "text"]
PassField == [NoElement EXCEPT !.tagName = "input", !.id = <<"p", "a", "s", "s">>,
                               !.type = "password"]
SubmitButton == [NoElement EXCEPT !.tagName = "button",
                                  !.id = <<"s", "u", "b", "m", "i", "t">>,
                                  !.type = "submit"]
PlainBlock == [NoElement EXCEPT !.tagName = "div", !.id = <<"b", "t", "n">>]

\* The records a page produces: a navigation to the login page, input in two
\* fields, a click on the submit button, a click and a hover on a <div>.
RecordedKinds ==
  { [EmptyAction EXCEPT !.type = "navigation", !.url = LoginUrl],
    [EmptyAction EXCEPT !.type = "input", !.selector = "#user", !.element = UserField,
                        !.value = "alice"],
    [EmptyAction EXCEPT !.type = "input", !.selector = "#pass", !.element = PassField,
                        !.value = "secret"],
    [EmptyAction EXCEPT !.type = "click", !.selector = "#submit",
                        !.element = SubmitButton],
    [EmptyAction EXCEPT !.type = "click", !.selector = "#btn", !.element = PlainBlock],
    [EmptyAction EXCEPT !.type = "hover", !.selector = "#btn", !.element = PlainBlock] }

\* Records of the other shapes optimizeActions takes: the api_call of the
\* request handler, and records of form controls whose descriptor names the
\* parent: a button and a <select> of the search form, and the user field
\* under its two ids.
ApiUrl == [LoginUrl EXCEPT !.path = <<"/", "a", "p", "i">>]
GoButton == [NoElement EXCEPT !.tagName = "button", !.id = <<"g", "o">>,
                              !.type = "submit", !.parent = SearchForm]
LangSelect == [NoElement EXCEPT !.tagName = "select", !.id = <<"l", "a", "n", "g">>,
                                !.parent = SearchForm]
UserFieldById == [UserField EXCEPT !.id = <<"u", "s", "e", "r", "F", "i", "e", "l", "d">>]

\* Records of elements without id and name: a click and a hover on a <div>
\* found by its class, clicks on two links found by their text; and the
\* navigation.
Card == [NoElement EXCEPT !.tagName = "div"]
SaveLink == [NoElement EXCEPT !.tagName = "a", !.textContent = <<"S", "a", "v", "e">>]
BackLink == [NoElement EXCEPT !.tagName = "a", !.textContent = <<"B", "a", "c", "k">>]
AnonymousKinds ==
  { [EmptyAction EXCEPT !.type = "navigation", !.url = LoginUrl],
    [EmptyAction EXCEPT !.type = "click", !.selector = ".card", !.element = Card],
    [EmptyAction EXCEPT !.type = "hover", !.selector = ".card", !.element = Card],
    [EmptyAction EXCEPT !.type = "click", !.selector = "text=Save", !.element = SaveLink],
    [EmptyAction EXCEPT !.type = "click", !.selector = "text=Back", !.element = BackLink] }

OtherKinds ==
  { [EmptyAction EXCEPT !.type = "api_call", !.url = ApiUrl],
    [EmptyAction EXCEPT !.type = "input", !.selector = "#user", !.element = UserField,
                        !.value = "alice"],
    [EmptyAction EXCEPT !.type = "select", !.selector = "#lang", !.element = LangSelect,
                        !.value = "en"],
    [EmptyAction EXCEPT !.type = "input", !.selector = "#userField",
                        !.element = UserFieldById, !.value = "bob"],
    [EmptyAction EXCEPT !.type = "click", !.selector = "#go", !.element = GoButton] }

\* Time between two consecutive records (timestamp: Date.now() at the append),
\* below and above options.minWaitTime.
Gaps == {50, 150}

\* A recording: the records of the given kinds, stamped in order, gap apart.
Recording(kinds, gap) ==
  [i \in DOMAIN kinds |-> [kinds[i] EXCEPT !.timestamp = 1000 + i * gap]]

\* ---- ActionParser ------------------------------------------------------------
minWaitTime == 100
maxWaitTime == 5000

\* The three tests of the loop of removeRedundantActions on actions[i] and its
\* successor (no successor: next is undefined and no test passes).
IsRedundant(actions, i) ==
  /\ i < Len(actions)
  /\ LET current == actions[i]
         next == actions[i + 1] IN
     /\ current.selector = next.selector
     /\ \/ current.type = "click" /\ next.type = "click"
        \/ current.type = "input" /\ next.type = "input"
        \/ current.type = "hover" /\ next.type = "click"

RECURSIVE Filtered(_, _)
\* filtered, from index i on.
Filtered(actions, i) ==
  IF i > Len(actions) THEN <<>>
  ELSE IF IsRedundant(actions, i) THEN Filtered(actions, i + 1)
  ELSE <<actions[i]>> \o Filtered(actions, i + 1)

RECURSIVE FilteredKeepingFirst(_, _)
FilteredKeepingFirst(actions, i) ==
  IF i > Len(actions) THEN <<>>
  ELSE IF i > 1 /\ IsRedundant(actions, i - 1)
         THEN FilteredKeepingFirst(actions, i + 1)
  ELSE <<actions[i]>> \o FilteredKeepingFirst(actions, i + 1)

\* Mutant of removeRedundantActions: of a redundant pair the earlier action
\* survives.
removeRedundantActions_KeepFirst(actions) == FilteredKeepingFirst(actions, 1)

removeRedundantActions(actions) == Filtered(actions, 1)

isFormElement(element) ==
  /\ element # NoElement
  /\ \/ element.tagName \in {"input", "select", "textarea", "button"}
     \/ element.type = "submit"

isSubmitButton(element) ==
  /\ element # NoElement
  /\ \/ element.type = "submit"
     \/ element.tagName = "button" /\ element.type = ""
     \/ element.tagName = "button" /\ element.type = "submit"

\* `Fill form with ${fieldCount} field(s)` and ' and submit'.
generateFormDescription(formActions) ==
  [fields |-> Cardinality({k \in DOMAIN formActions : formActions[k].type = "input"}),
   submit |-> \E k \in DOMAIN formActions :
                /\ formActions[k].type = "click"
                /\ \/ formActions[k].element.type = "submit"
                   \/ formActions[k].element.tagName = "button"]

\* Mutant of finalizeGroup: the form_sequence keeps the first two actions only.
finalizeGroup_FirstTwo(group, groupType) ==
  IF groupType = "form" /\ Len(group) > 1
    THEN << [EmptyAction EXCEPT !.type = "form_sequence",
                                !.actions = SubSeq(group, 1, 2),
                                !.timestamp = group[1].timestamp,
                                !.description = generateFormDescription(group)] >>
    ELSE group

finalizeGroup(group, groupType) ==
  IF groupType = "form" /\ Len(group) > 1
    THEN << [EmptyAction EXCEPT !.type = "form_sequence", !.actions = group,
                                !.timestamp = group[1].timestamp,
                                !.description = generateFormDescription(group)] >>
    ELSE group

RECURSIVE Grouped(_, _, _, _, _)
\* The loop of groupSequentialActions from index i on, with its three locals
\* (currentGroupType "" is null), and the final flush.
Grouped(actions, i, grouped, currentGroup, currentGroupType) ==
  IF i > Len(actions)
    THEN IF Len(currentGroup) > 0
           THEN grouped \o finalizeGroup(currentGroup, currentGroupType)
           ELSE grouped
  ELSE LET action == actions[i] IN
    IF action.type \in {"input", "select", "click"} /\ isFormElement(action.element)
      THEN IF currentGroupType # "form"
             THEN Grouped(actions, i + 1,
                          IF Len(currentGroup) > 0
                            THEN grouped \o finalizeGroup(currentGroup, currentGroupType)
                            ELSE grouped,
                          <<action>>, "form")
             ELSE Grouped(actions, i + 1, grouped, Append(currentGroup, action), "form")
    ELSE IF action.type = "navigation"
      THEN Grouped(actions, i + 1,
                   Append(IF Len(currentGroup) > 0
                            THEN grouped \o finalizeGroup(currentGroup, currentGroupType)
                            ELSE grouped,
                          action),
                   <<>>, "")
    ELSE IF currentGroupType # "" /\ currentGroupType # "general"
      THEN Grouped(actions, i + 1,
                   grouped \o finalizeGroup(currentGroup, currentGroupType),
                   <<action>>, "general")
      ELSE Grouped(actions, i + 1, grouped, Append(currentGroup, action), "general")

groupSequentialActions(actions) == Grouped(actions, 1, <<>>, <<>>, "")
\* What determineWaitStrategy returns: null, or {type, selector, timeout}.
NoWait == [type |-> "", selector |-> "", url |-> NoUrl, timeout |-> 0]

Min(a, b) == IF a <= b THEN a ELSE b

\* determineWaitStrategy(currentAction, nextAction), hasNext telling whether
\* nextAction is defined.
determineWaitStrategy(currentAction, hasNext, nextAction) ==
  IF ~hasNext THEN NoWait
  ELSE LET timeDiff == nextAction.timestamp - currentAction.timestamp IN
    IF currentAction.type = "navigation"
      THEN [type |-> "networkidle", selector |-> "", url |-> NoUrl, timeout |-> 5000]
    ELSE IF currentAction.type = "click" /\ nextAction.type = "navigation"
      THEN [type |-> "navigation", selector |-> "", url |-> NoUrl, timeout |-> 10000]
    ELSE IF /\ currentAction.type = "click"
            /\ timeDiff > minWaitTime
            /\ nextAction.selector # ""
      THEN [type |-> "visible", selector |-> nextAction.selector, url |-> NoUrl,
            timeout |-> Min(timeDiff * 2, maxWaitTime)]
    ELSE IF currentAction.type = "click" /\ isSubmitButton(currentAction.element)
      THEN [type |-> "networkidle", selector |-> "", url |-> NoUrl, timeout |-> 10000]
    ELSE IF currentAction.type = "api_call"
      THEN [type |-> "response", selector |-> "", url |-> currentAction.url,
            timeout |-> 5000]
    ELSE NoWait

RECURSIVE WithWaits(_, _)
\* withWaits, from index i on.
WithWaits(actions, i) ==
  IF i > Len(actions) THEN <<>>
  ELSE LET current == actions[i]
           hasNext == i < Len(actions)
           waitStrategy == determineWaitStrategy(current, hasNext,
                             IF hasNext THEN actions[i + 1] ELSE EmptyAction)
       IN <<current>>
          \o (IF waitStrategy # NoWait
                THEN << [EmptyAction EXCEPT !.type = "wait",
                                            !.strategy = waitStrategy.type,
                                            !.selector = waitStrategy.selector,
                                            !.timeout = waitStrategy.timeout,
                                            !.timestamp = current.timestamp + 1] >>
                ELSE <<>>)
          \o WithWaits(actions, i + 1)

addWaitStrategies(actions) == WithWaits(actions, 1)

\* order[a.type] || 0 of the comparator of optimizeFormGroup.
FormOrder(type) ==
  CASE type = "select" -> 1
    [] type = "textarea" -> 2
    [] type = "click" -> 3
    [] OTHER -> 0

IsRank(r, action) == FormOrder(action.type) = r

\* actions.sort(comparator): Array.prototype.sort is stable, so the actions of
\* one rank keep their order.
optimizeFormGroup(actions) ==
  SelectSeq(actions, LAMBDA a : IsRank(0, a))
    \o SelectSeq(actions, LAMBDA a : IsRank(1, a))
    \o SelectSeq(actions, LAMBDA a : IsRank(2, a))
    \o SelectSeq(actions, LAMBDA a : IsRank(3, a))

\* identifyFormContainer(action): the id, the class or 'form' of a parent that
\* is a form, 'default' otherwise.
identifyFormContainer(action) ==
  LET parent == action.element.parent IN
  IF parent.tagName = "form"
    THEN IF parent.id # "" THEN parent.id
         ELSE IF parent.className # "" THEN parent.className ELSE "form"
    ELSE "default"

RECURSIVE Containers(_, _)
\* The keys of formGroups, in the order the Map got them.
Containers(formActions, seen) ==
  IF formActions = <<>> THEN seen
  ELSE LET container == identifyFormContainer(Head(formActions)) IN
       Containers(Tail(formActions),
                  IF \E k \in DOMAIN seen : seen[k] = container
                    THEN seen ELSE Append(seen, container))

RECURSIVE GroupsInOrder(_, _)
\* optimized, from the given containers on: the sorted group of each.
GroupsInOrder(formActions, containers) ==
  IF containers = <<>> THEN <<>>
  ELSE optimizeFormGroup(SelectSeq(formActions,
           LAMBDA a : identifyFormContainer(a) = Head(containers)))
         \o GroupsInOrder(formActions, Tail(containers))

\* optimizeFormSequence(formActions): the actions grouped by form container,
\* each group sorted, the groups in the order of their first action.
optimizeFormSequence(formActions) ==
  GroupsInOrder(formActions, Containers(formActions, <<>>))

optimizeFormFilling(actions) ==
  [i \in DOMAIN actions |->
     IF actions[i].type = "form_sequence"
       THEN [actions[i] EXCEPT !.actions = optimizeFormSequence(actions[i].actions)]
       ELSE actions[i]]

\* actions.slice(startIndex + 1, startIndex + 1 + count)
getSubsequentActions(actions, startIndex, count) ==
  SubSeq(actions, startIndex + 1, Min(startIndex + count, Len(actions)))

\* The actions that have a selector, as {selector: action.selector.primary, type}
\* (the selector of a wait record is a string: its .primary is undefined).
extractExpectedElements(actions) ==
  LET withSelector == SelectSeq(actions, LAMBDA a : a.selector # "") IN
  [k \in DOMAIN withSelector |->
     [selector |-> IF withSelector[k].type = "wait" THEN "undefined"
                   ELSE withSelector[k].selector,
      type |-> withSelector[k].type]]

optimizeNavigation(actions) ==
  [i \in DOMAIN actions |->
     IF actions[i].type = "navigation"
       THEN [actions[i] EXCEPT !.expectedElements =
               extractExpectedElements(getSubsequentActions(actions, i, 3))]
       ELSE actions[i]]
\* generateStepDescription(action): the sentence, as its verb and its object
\* (element.name is not a field of the recorder's element descriptor).
generateStepDescription(action) ==
  CASE action.type = "navigation" -> [verb |-> "Navigate to", object |-> <<action.url>>]
    [] action.type = "click" ->
         [verb |-> "Click",
          object |-> IF action.element.textContent # <<>>
                       THEN SubSeq(action.element.textContent, 1,
                                   Min(30, Len(action.element.textContent)))
                       ELSE IF action.element.tagName # ""
                              THEN <<action.element.tagName>> ELSE <<"element">>]
    [] action.type = "input" ->
         [verb |-> "Enter text in",
          object |-> IF action.element.id # <<>> THEN action.element.id
                     ELSE <<"field">>]
    [] action.type = "hover" ->
         [verb |-> "Hover over",
          object |-> IF action.element.tagName # ""
                       THEN <<action.element.tagName>> ELSE <<"element">>]
    [] action.type = "wait" ->
         [verb |-> "Wait for",
          object |-> IF action.selector # "" THEN <<action.strategy, action.selector>>
                     ELSE <<action.strategy>>]
    [] action.type = "form_sequence" ->
         [verb |-> IF action.description.submit THEN "Fill form and submit"
                   ELSE "Fill form",
          object |-> [k \in 1..action.description.fields |-> "field"]]
    [] OTHER -> [verb |-> "Perform", object |-> <<action.type>>]

\* generateWaitCode(waitAction): one statement.
generateWaitCode(waitAction) ==
  CASE waitAction.strategy = "visible" ->
         [op |-> "waitFor", target |-> waitAction.selector, value |-> "visible"]
    [] waitAction.strategy = "networkidle" ->
         [op |-> "waitForLoadState", target |-> "", value |-> "networkidle"]
    [] waitAction.strategy = "navigation" ->
         [op |-> "waitForURL", target |-> "", value |-> "**"]
    [] waitAction.strategy = "response" ->
         [op |-> "waitForResponse", target |-> "", value |-> waitAction.url]
    [] OTHER -> [op |-> "waitForTimeout", target |-> "", value |-> "timeout"]

\* generateStepCode of an action that is not a form_sequence: one statement.
StatementOf(action) ==
  CASE action.type = "navigation" ->
         [op |-> "goto", target |-> "", value |-> action.url]
    [] action.type = "click" -> [op |-> "click", target |-> action.selector, value |-> ""]
    [] action.type = "input" ->
         [op |-> "fill", target |-> action.selector,
          value |-> IF action.value # "" THEN action.value ELSE "${data.inputValue}"]
    [] action.type = "select" ->
         [op |-> "selectOption", target |-> action.selector,
          value |-> IF action.value # "" THEN action.value ELSE "${data.optionValue}"]
    [] action.type = "hover" -> [op |-> "hover", target |-> action.selector, value |-> ""]
    [] action.type = "keypress" -> [op |-> "press", target |-> "", value |-> ""]
    [] action.type = "wait" -> generateWaitCode(action)
    [] OTHER -> [op |-> "comment", target |-> "", value |-> action.type]

\* generateStepCode(action): the statements, in order (generateFormSequenceCode
\* joins the code of the sub-actions).
generateStepCode(action) ==
  IF action.type = "form_sequence"
    THEN [k \in DOMAIN action.actions |-> StatementOf(action.actions[k])]
    ELSE <<StatementOf(action)>>

\* extractStepData(action); isNull when no key was set.
extractStepData(action) ==
  [inputValue |-> IF action.type \in {"input", "select"} THEN action.value ELSE "",
   elementText |-> action.element.textContent,
   elementType |-> action.element.tagName,
   isNull |-> /\ ~(action.type \in {"input", "select"} /\ action.value # "")
              /\ action.element = NoElement]

\* generateAssertions(action): the assertions (null is the empty list).
generateAssertions(action) ==
  CASE action.type = "navigation" ->
         <<[type |-> "url", target |-> action.url]>>
           \o [k \in DOMAIN action.expectedElements |->
                 [type |-> "visibility", target |-> action.expectedElements[k].selector]]
    [] action.type = "click" ->
         IF action.element.tagName = "button" /\ isSubmitButton(action.element)
           THEN <<[type |-> "form_submission", target |-> ""]>>
           ELSE <<>>
    [] action.type = "input" -> <<[type |-> "input_value", target |-> action.selector]>>
    [] OTHER -> <<>>

\* Mutant of convertToTestSteps: the step ids go on from those of the call
\* before instead of starting at 1.
convertToTestSteps_RunningIds(optimized) ==
  [index \in DOMAIN optimized |->
     [id |-> Len(testSteps) + index,
      type |-> optimized[index].type,
      description |-> generateStepDescription(optimized[index]),
      code |-> generateStepCode(optimized[index]),
      selector |-> optimized[index].selector,
      data |-> extractStepData(optimized[index]),
      assertions |-> generateAssertions(optimized[index]),
      timestamp |-> optimized[index].timestamp]]

\* convertToTestSteps(optimizedActions): one Test Step per action.
convertToTestSteps(optimized) ==
  [index \in DOMAIN optimized |->
     [id |-> index,
      type |-> optimized[index].type,
      description |-> generateStepDescription(optimized[index]),
      code |-> generateStepCode(optimized[index]),
      selector |-> optimized[index].selector,
      data |-> extractStepData(optimized[index]),
      assertions |-> generateAssertions(optimized[index]),
      timestamp |-> optimized[index].timestamp]]

\* ---- optimizeActions(recordedActions), stage by stage ----------------------
ParStart(kindSet) ==
  /\ \E n \in 0..MaxActions, gap \in Gaps :
       \E kinds \in [1..n -> kindSet] :
         recording = Recording(kinds, gap)
  /\ optimizedActions = <<>>
  /\ parserPc = "recorded"
  /\ run = 1
  /\ firstSteps = <<>>
  /\ testSteps = <<>>
  /\ pageObjectsData = <<>>
  /\ pageKeys = <<>>

\* if (!Array.isArray(recordedActions) || recordedActions.length === 0) return [];
\* let optimizedActions = [...recordedActions];
OptimizeCall ==
  /\ parserPc = "called"
  /\ IF Len(recording) = 0
       THEN /\ parserPc' = "returned"
            /\ testSteps' = <<>>
            /\ UNCHANGED optimizedActions
       ELSE /\ parserPc' = "copied"
            /\ optimizedActions' = recording
            /\ UNCHANGED testSteps
  /\ UNCHANGED <<recording, run, firstSteps, pageObjectsData, pageKeys>>
  /\ UNCHANGED <<recVars, selVars, namVars, appVars>>

\* A stage that would write its result into the array of the caller.
Stage_IntoTheInput(to, result) ==
  /\ parserPc' = to
  /\ optimizedActions' = result
  /\ recording' = result
  /\ UNCHANGED <<run, firstSteps, testSteps, pageObjectsData, pageKeys>>
  /\ UNCHANGED <<recVars, selVars, namVars, appVars>>

\* One stage of the pipeline: optimizedActions = this.<stage>(optimizedActions).
\* Every stage pushes into an array of its own and returns that; the one write
\* in place, the sort of optimizeFormGroup, is on an array optimizeFormSequence
\* made, so the array of the caller and its records stay as they are.
Stage(to, result) ==
  /\ parserPc' = to
  /\ optimizedActions' = result
  /\ UNCHANGED <<recording, run, firstSteps, testSteps, pageObjectsData, pageKeys>>
  /\ UNCHANGED <<recVars, selVars, namVars, appVars>>

RemoveRedundant ==
  /\ parserPc = "copied"
  /\ Stage("filtered", removeRedundantActions(optimizedActions))

GroupSequential ==
  /\ parserPc = "filtered"
  /\ Stage("grouped", groupSequentialActions(optimizedActions))

AddWaits ==
  /\ parserPc = "grouped"
  /\ Stage("waits", addWaitStrategies(optimizedActions))

OptimizeForms ==
  /\ parserPc = "waits"
  /\ Stage("forms", optimizeFormFilling(optimizedActions))

OptimizeNav ==
  /\ parserPc = "forms"
  /\ Stage("annotated", optimizeNavigation(optimizedActions))

\* return this.convertToTestSteps(optimizedActions);
ConvertSteps ==
  /\ parserPc = "annotated"
  /\ parserPc' = "returned"
  /\ testSteps' = convertToTestSteps(optimizedActions)
  /\ UNCHANGED <<recording, optimizedActions, run, firstSteps, pageObjectsData, pageKeys>>
  /\ UNCHANGED <<recVars, selVars, namVars, appVars>>

\* optimizeActions as one synchronous call: the five stages, then conversion.
optimizeActions(actions) ==
  IF Len(actions) = 0
    THEN <<>>
    ELSE convertToTestSteps(
           optimizeNavigation(
             optimizeFormFilling(
               addWaitStrategies(
                 groupSequentialActions(
                   removeRedundantActions(actions))))))

\* The caller keeps the steps and calls optimizeActions again on the same list;
\* the call is synchronous, so it runs to its return in one step.
OptimizeAgain ==
  /\ parserPc = "returned"
  /\ run = 1
  /\ run' = 2
  /\ firstSteps' = testSteps
  /\ parserPc' = "returned"
  /\ testSteps' = optimizeActions(recording)
  /\ UNCHANGED <<recording, optimizedActions, pageObjectsData, pageKeys>>
  /\ UNCHANGED <<recVars, selVars, namVars, appVars>>

\* ---- CodeGenerator: page objects from a recording --------------------------
IsWordChar(cs, i) == i \in DOMAIN cs /\ cs[i] \in WordChar

\* A match of /(?:^\w|[A-Z]|\b\w)/g starts at position i.
CaseMatch(cs, i) ==
  /\ i \in DOMAIN cs
  /\ \/ cs[i] \in Range(UpperLetters)
     \/ IsWordChar(cs, i) /\ ~IsWordChar(cs, i - 1)

Whitespace == {" "}

\* toCamelCase(str): a match is lower-cased at index 0 and upper-cased
\* elsewhere, then the white space is removed.
toCamelCase(cs) ==
  SelectSeq([i \in DOMAIN cs |->
               IF CaseMatch(cs, i)
                 THEN IF i = 1 THEN ToLower(cs[i]) ELSE ToUpper(cs[i])
                 ELSE cs[i]],
            LAMBDA ch : ch \notin Whitespace)

\* toPascalCase(str): every match is upper-cased, then the white space is removed.
toPascalCase(cs) ==
  SelectSeq([i \in DOMAIN cs |-> IF CaseMatch(cs, i) THEN ToUpper(cs[i]) ELSE cs[i]],
            LAMBDA ch : ch \notin Whitespace)

\* str.charAt(0).toUpperCase() + str.slice(1)
capitalize(cs) == [i \in DOMAIN cs |-> IF i = 1 THEN ToUpper(cs[i]) ELSE cs[i]]

\* generateElementName(element, actionType) of the code generator: the id or
\* the name in camel case, or the text and the tag, or the action type and the
\* tag.
generateElementName(element, actionType) ==
  IF element.id # <<>> THEN toCamelCase(element.id)
  ELSE IF element.name # <<>> THEN toCamelCase(element.name)
  ELSE IF element.textContent # <<>>
    THEN toCamelCase(SelectSeq(element.textContent, LAMBDA ch : ch \in Letter \cup Digit))
           \o <<element.tagName>>
    ELSE <<actionType, element.tagName>>

\* text.toLowerCase().includes(word)
ContainsCI(cs, word) ==
  \E from \in 1..Len(cs) :
    /\ from + Len(word) - 1 <= Len(cs)
    /\ \A k \in 1..Len(word) : ToLower(cs[from + k - 1]) = word[k]

\* isSubmitButton(element) of the code generator.
GeneratorIsSubmitButton(element) ==
  \/ element.type = "submit"
  \/ element.tagName = "button" /\ element.type = ""
  \/ ContainsCI(element.textContent, <<"s", "u", "b", "m", "i", "t">>)

\* action.element?.name || action.element?.id || fallback, in Pascal case.
FieldName(action, fallback) ==
  toPascalCase(IF action.element.name # <<>> THEN action.element.name
               ELSE IF action.element.id # <<>> THEN action.element.id
               ELSE fallback)

\* `click${this.toPascalCase(cleanText)}`, cleanText the letters of the text.
ClickName(action) ==
  [verb |-> "click",
   noun |-> toPascalCase(SelectSeq(action.element.textContent,
                                   LAMBDA ch : ch \in Letter))]

\* inferFunctionName(action) of the code generator: the method name, as its
\* fixed part and the part made of a path, a field name, a text or a type.
inferFunctionName(action) ==
  IF action.type = "navigation"
    THEN [verb |-> "navigateTo", noun |-> <<"P", "a", "g", "e">>]
  ELSE IF /\ action.type = "click" /\ action.element # NoElement
          /\ GeneratorIsSubmitButton(action.element)
    THEN [verb |-> "submitForm", noun |-> <<>>]
  ELSE IF /\ action.type = "click" /\ action.element # NoElement
          /\ action.element.textContent # <<>>
    THEN ClickName(action)
  ELSE IF action.type = "input"
    THEN [verb |-> "enter", noun |-> FieldName(action, <<"f", "i", "e", "l", "d">>)]
  ELSE IF action.type = "select"
    THEN [verb |-> "select",
          noun |-> FieldName(action, <<"d", "r", "o", "p", "d", "o", "w", "n">>)]
  ELSE [verb |-> "perform", noun |-> <<action.type>>]

\* What a call that threw gives instead of a name.
Thrown == [verb |-> "TypeError", noun |-> <<>>]

\* inferFunctionName(action) of the action parser; new URL(action.url) throws
\* on a URL without scheme.
ParserInferFunctionName(action) ==
  IF action.type = "navigation"
    THEN IF UrlThrows(action.url) THEN Thrown
         ELSE LET letters == SelectSeq(Pathname(action.url), LAMBDA ch : ch \in Letter)
              IN [verb |-> "navigateTo",
                  noun |-> toPascalCase(IF letters = <<>> THEN <<"p", "a", "g", "e">>
                                        ELSE letters)]
  ELSE IF action.type = "form_sequence" THEN [verb |-> "fillForm", noun |-> <<>>]
  ELSE IF /\ action.type = "click" /\ action.element # NoElement
          /\ isSubmitButton(action.element)
    THEN [verb |-> "submitForm", noun |-> <<>>]
  ELSE IF /\ action.type = "click" /\ action.element # NoElement
          /\ action.element.textContent # <<>>
    THEN ClickName(action)
  ELSE IF action.type = "input"
    THEN [verb |-> "enter", noun |-> FieldName(action, <<"f", "i", "e", "l", "d">>)]
  ELSE [verb |-> "perform", noun |-> <<action.type>>]

\* ---- one action named by both ------------------------------------------------
NoName == [verb |-> "", noun |-> <<>>]
NoNaming ==
  [action |-> EmptyAction, parser |-> NoName, parserSubmit |-> "",
   generator |-> NoName, generatorSubmit |-> ""]

\* The element descriptors named: a button, a link or an input, with the type
\* attribute submit or none, and no text, 'Save' or 'Submit order'.
NamedElements ==
  { [NoElement EXCEPT !.tagName = tag, !.type = type, !.textContent = text,
                      !.id = <<"g", "o">>] :
      tag \in {"button", "a", "input"}, type \in {"", "submit"},
      text \in {<<>>, <<"S", "a", "v", "e">>,
                <<"S", "u", "b", "m", "i", "t", " ", "o", "r", "d", "e", "r">>} }

NamedActions ==
  { [EmptyAction EXCEPT !.type = "navigation", !.url = LoginUrl],
    [EmptyAction EXCEPT !.type = "form_sequence"] }
    \cup { [EmptyAction EXCEPT !.type = type, !.selector = "#go", !.element = el] :
             type \in {"click", "input", "select", "hover"}, el \in NamedElements }

NamIdle == naming = NoNaming

NamInit == \E action \in NamedActions : naming = [NoNaming EXCEPT !.action = action]

\* The answer of a submit classifier, for the actions it is asked about.
SubmitClass(action, isSubmit) ==
  IF action.type = "click" /\ action.element # NoElement
    THEN IF isSubmit THEN "yes" ELSE "no"
    ELSE "not asked"

\* generateMethods -> groupActionsByFunction: this.inferFunctionName(action).
ParserNames ==
  /\ naming.action # EmptyAction
  /\ naming.parser = NoName
  /\ naming' = [naming EXCEPT
                  !.parser = ParserInferFunctionName(naming.action),
                  !.parserSubmit = SubmitClass(naming.action,
                                               isSubmitButton(naming.action.element))]
  /\ UNCHANGED <<recVars, selVars, parVars, appVars>>

\* generatePageObjectMethods -> groupActionsByFunction:
\* this.inferFunctionName(action).
GeneratorNames ==
  /\ naming.action # EmptyAction
  /\ naming.generator = NoName
  /\ naming' = [naming EXCEPT
                  !.generator = inferFunctionName(naming.action),
                  !.generatorSubmit =
                    SubmitClass(naming.action,
                                GeneratorIsSubmitButton(naming.action.element))]
  /\ UNCHANGED <<recVars, selVars, parVars, appVars>>

NamingNext == ParserNames \/ GeneratorNames

EndsWith(cs, suffix) ==
  /\ Len(cs) >= Len(suffix)
  /\ SubSeq(cs, Len(cs) - Len(suffix) + 1, Len(cs)) = suffix

\* getBaseFunctionName(name): name.replace(/\d+$/, '').replace(/(Button|Link|Field)$/, '')
\* (the fixed parts of the names end with neither a digit nor such a suffix).
getBaseFunctionName(name) ==
  LET noDigits == TrimRight(name.noun, Digit)
      suffixes == { <<"B", "u", "t", "t", "o", "n">>, <<"L", "i", "n", "k">>,
                    <<"F", "i", "e", "l", "d">> }
  IN [name EXCEPT !.noun =
        IF \E sf \in suffixes : EndsWith(noDigits, sf)
          THEN LET sf == CHOOSE x \in suffixes : EndsWith(noDigits, x)
               IN SubSeq(noDigits, 1, Len(noDigits) - Len(sf))
          ELSE noDigits]

RECURSIVE Distinct(_)
\* The keys of a Map in insertion order: the list without its repetitions.
Distinct(seq) ==
  IF seq = <<>> THEN <<>>
  ELSE LET front == Distinct(SubSeq(seq, 1, Len(seq) - 1))
           last == seq[Len(seq)]
       IN IF \E k \in DOMAIN front : front[k] = last THEN front ELSE Append(front, last)

\* What both Maps of groupActionsByFunction hold: the actions of each key, the
\* keys in the order of their first set().
ByKey(actions, keyOf) ==
  LET mapKeys == Distinct([k \in DOMAIN actions |-> keyOf[k]])
      indices(key) == SelectSeq([k \in DOMAIN actions |-> k], LAMBDA k : keyOf[k] = key)
  IN [g \in DOMAIN mapKeys |->
        [name |-> mapKeys[g],
         actions |-> [j \in DOMAIN indices(mapKeys[g]) |-> actions[indices(mapKeys[g])[j]]]]]

RECURSIVE Spread(_, _)
\* mergedGroups.get(baseName).push(...actions), for the groups of one base name
\* in the order of the first Map.
Spread(groups, baseName) ==
  IF groups = <<>> THEN <<>>
  ELSE (IF getBaseFunctionName(groups[1].name) = baseName THEN groups[1].actions
        ELSE <<>>) \o Spread(Tail(groups), baseName)

\* groupActionsByFunction(actions): the groups by inferred name, merged by base
\* name.
groupActionsByFunction(actions) ==
  LET groups == ByKey(actions, [k \in DOMAIN actions |-> inferFunctionName(actions[k])])
      baseNames == Distinct([g \in DOMAIN groups |-> getBaseFunctionName(groups[g].name)])
  IN [m \in DOMAIN baseNames |->
        [name |-> baseNames[m], actions |-> Spread(groups, baseNames[m])]]

\* generateParameterName(action)
generateParameterName(action) ==
  IF action.element.name # <<>> THEN toCamelCase(action.element.name)
  ELSE IF action.element.id # <<>> THEN toCamelCase(action.element.id)
  ELSE <<"v", "a", "l", "u", "e">>

RECURSIVE generateMethodParameters_All(_)
\* Without the paramNames Set: one parameter for every input with a value.
generateMethodParameters_All(actions) ==
  IF actions = <<>> THEN <<>>
  ELSE LET front == generateMethodParameters_All(SubSeq(actions, 1, Len(actions) - 1))
           action == actions[Len(actions)]
       IN IF action.type = "input" /\ action.value # ""
            THEN Append(front, [name |-> generateParameterName(action),
                                defaultValue |-> action.value])
            ELSE front

RECURSIVE generateMethodParameters(_)
\* generateMethodParameters(actions): one parameter for every input with a
\* value whose parameter name was not taken before.
generateMethodParameters(actions) ==
  IF actions = <<>> THEN <<>>
  ELSE LET front == generateMethodParameters(SubSeq(actions, 1, Len(actions) - 1))
           action == actions[Len(actions)]
       IN IF /\ action.type = "input" /\ action.value # ""
             /\ \A p \in DOMAIN front : front[p].name # generateParameterName(action)
            THEN Append(front, [name |-> generateParameterName(action),
                                defaultValue |-> action.value])
            ELSE front

\* generatePageObjectMethods(actions, elements): one method per group of
\* groupActionsByFunction, with its name, its parameters and the number of its
\* actions.
generatePageObjectMethods(actions) ==
  LET actionGroups == groupActionsByFunction(actions)
  IN [m \in DOMAIN actionGroups |->
        [name |-> actionGroups[m].name,
         parameters |-> generateMethodParameters(actionGroups[m].actions),
         actions |-> Len(actionGroups[m].actions)]]

\* pageObject.elements after elements.set(elementName, {...}) for each of the
\* actions: the names in the order of their first set(), each with the
\* selector and the tag of the last action set under it.
ElementsMap(actions) ==
  LET nameOf == [k \in DOMAIN actions |->
                   generateElementName(actions[k].element, actions[k].type)]
      names == Distinct(nameOf)
      last(name) == actions[CHOOSE k \in DOMAIN actions :
                              /\ nameOf[k] = name
                              /\ \A j \in DOMAIN actions : nameOf[j] = name => j <= k]
  IN [e \in DOMAIN names |->
        [name |-> names[e], selector |-> last(names[e]).selector,
         type |-> last(names[e]).element.tagName]]

\* generatePageObjectName(pageKey)
generatePageObjectName(pageKey) ==
  capitalize(SelectSeq(pageKey, LAMBDA ch : ch \in Letter \cup Digit))
    \o <<"P", "a", "g", "e">>

\* extractPageObjectsFromRecording({actions, startUrl}): the page objects in the
\* order of the Map, each with its key, name, url, the names of its element
\* bindings and its methods, and its actions.
extractPageObjectsFromRecording(actions, startUrl) ==
  LET pageKeyOf == [k \in DOMAIN actions |-> getPageKey(actions[k])]
      mapKeys == Distinct(pageKeyOf)
      actionsOf(key) == SelectSeq(actions, LAMBDA a : getPageKey(a) = key)
      bound(key) == SelectSeq(actionsOf(key),
                              LAMBDA a : a.selector # "" /\ a.element # NoElement)
  IN [m \in DOMAIN mapKeys |->
        [key |-> mapKeys[m],
         name |-> generatePageObjectName(mapKeys[m]),
         url |-> IF actionsOf(mapKeys[m])[1].url # NoUrl
                   THEN actionsOf(mapKeys[m])[1].url ELSE startUrl,
         elements |-> ElementsMap(bound(mapKeys[m])),
         methods |-> generatePageObjectMethods(actionsOf(mapKeys[m])),
         actions |-> actionsOf(mapKeys[m])]]

\* generatePageObjects: pageObjectsData = this.extractPageObjectsFromRecording(
\* recordingData), before the tests are generated from the same recording.
ExtractPageObjects ==
  /\ parserPc = "recorded"
  /\ pageObjectsData' = extractPageObjectsFromRecording(recording, LoginUrl)
  /\ parserPc' = "called"
  /\ UNCHANGED <<recording, optimizedActions, run, firstSteps, testSteps, pageKeys>>
  /\ UNCHANGED <<recVars, selVars, namVars, appVars>>

\* getElementName(action)
getElementName(action) ==
  IF action.element.name # <<>> THEN toCamelCase(action.element.name)
  ELSE IF action.element.id # <<>> THEN toCamelCase(action.element.id)
  ELSE <<"e", "l", "e", "m", "e", "n", "t">>

\* The pieces of white-space-free text generateActionCode(action) returns, each
\* as the call and what it is made on or with (the values have no white space).
generateActionCode(action) ==
  CASE action.type = "navigation" ->
         { <<"await">>, <<"goto", action.url.origin>> \o action.url.path }
    [] action.type = "click" -> { <<"await">>, <<"click">> \o getElementName(action) }
    [] action.type = "input" ->
         { <<"await">>, <<"fill", action.value>> \o getElementName(action) }
    [] action.type = "select" ->
         { <<"await">>, <<"selectOption", action.value>> \o getElementName(action) }
    [] action.type = "hover" -> { <<"await">>, <<"hover">> \o getElementName(action) }
    [] OTHER -> { <<"//">>, <<action.type>>, <<"action">> }

\* new Set(method.body.toLowerCase().split(/\s+/)) for the body
\* generateMethodBody(actions) makes: it starts with white space, so the
\* empty string is one of the words.
BodyWords(actions) ==
  {<<>>} \cup UNION { { [i \in DOMAIN w |-> ToLower(w[i])] : w \in generateActionCode(actions[k]) } :
                       k \in DOMAIN actions }

\* areMethodsSimilar: intersection.size / union.size > 0.7
areMethodsSimilar(actions1, actions2) ==
  LET words1 == BodyWords(actions1)
      words2 == BodyWords(actions2)
  IN 10 * Cardinality(words1 \cap words2) > 7 * Cardinality(words1 \cup words2)

\* mergeSimilarMethods(methods) reaches createMergedMethod, whose call of
\* this.mergeParameters (a method the class does not have) throws: some method
\* has a similar method of another name.
MergeThrows(po) ==
  LET actionGroups == groupActionsByFunction(po.actions)
  IN \E m, n \in DOMAIN actionGroups :
       /\ m # n
       /\ areMethodsSimilar(actionGroups[m].actions, actionGroups[n].actions)

\* `${element.selector.primary}-${element.type}`
ElementKey(element) == <<element.selector, "-", element.type>>

RECURSIVE UniqueElements(_)
\* The loop of optimizePageObject: has() is asked for the composite key, and
\* set() is made under the element's name.
UniqueElements(elements) ==
  IF elements = <<>> THEN <<>>
  ELSE LET uniqueElements == UniqueElements(SubSeq(elements, 1, Len(elements) - 1))
           element == elements[Len(elements)]
       IN IF \E u \in DOMAIN uniqueElements :
               uniqueElements[u].name = ElementKey(element)
            THEN uniqueElements
            ELSE Append(uniqueElements, element)

\* optimizePageObject(pageObjectData), as far as it gets: the elements are
\* replaced, and the methods are left as they were, by a merge that finds
\* nothing similar or by one that throws.
optimizePageObject(pageObjectData) ==
  [pageObjectData EXCEPT !.elements = UniqueElements(pageObjectData.elements)]

\* generatePageObjects, the first turn of its loop with options.optimize:
\* pageObjectData = this.optimizePageObject(pageObjectData) changes the page
\* object in place, and throws: out of mergeSimilarMethods, or at the
\* assignment to the const of the loop.
OptimizePageObject ==
  /\ parserPc = "called"
  /\ pageObjectsData # <<>>
  /\ pageObjectsData' = [pageObjectsData EXCEPT ![1] = optimizePageObject(@)]
  /\ parserPc' = IF MergeThrows(pageObjectsData[1])
                   THEN "this.mergeParameters is not a function"
                   ELSE "Assignment to constant variable."
  /\ UNCHANGED <<recording, optimizedActions, run, firstSteps, testSteps, pageKeys>>
  /\ UNCHANGED <<recVars, selVars, namVars, appVars>>

\* generatePageObjects without a page object: the loop has no turn.
NoPageObject ==
  /\ parserPc = "called"
  /\ pageObjectsData = <<>>
  /\ parserPc' = "generated"
  /\ UNCHANGED <<recording, optimizedActions, run, firstSteps, testSteps, pageKeys,
                 pageObjectsData>>
  /\ UNCHANGED <<recVars, selVars, namVars, appVars>>

GeneratorNext == ExtractPageObjects \/ OptimizePageObject \/ NoPageObject
\*PARSER-SECTION

\* ============================================== ELECTRON MAIN PROCESS ===
Pids == 1..MaxSpawns
StopRequests == 1..MaxStopRequests

NoRequest == [pc |-> "none", target |-> 0]

IpcIdle ==
  /\ recordingProcess = 0
  /\ childState = [p \in Pids |-> "none"]
  /\ killed = {}
  /\ stopRequest = [s \in StopRequests |-> NoRequest]
  /\ stoppedSent = [p \in Pids |-> 0]

\* this.mainWindow.webContents.send('recording-stopped', ...), counted for the
\* child process whose handler or whose stop request sends it (the window is
\* there and not destroyed).
SendStopped(p) == stoppedSent' = [stoppedSent EXCEPT ![p] = @ + 1]

\* ipcMain.handle('get-recording-status')
getRecordingStatus ==
  [isRecording |-> recordingProcess # 0, processId |-> recordingProcess]

\* ipcMain.handle('start-recording'): it throws, and returns the failure, when
\* recordingProcess is set; else createManagedProcess spawns the next child
\* process, the handlers are attached and the pid is returned. The handler has
\* no await: it runs in one step. A spawn that fails gives a child process
\* that never runs and emits 'error'.
StartRecording(spawned) ==
  /\ \E p \in Pids : childState[p] = "none"
  /\ IF recordingProcess # 0
       THEN UNCHANGED <<recordingProcess, childState>>
       ELSE LET p == CHOOSE q \in Pids :
                       /\ childState[q] = "none"
                       /\ \A r \in Pids : r < q => childState[r] # "none"
            IN /\ recordingProcess' = p
               /\ childState' = [childState EXCEPT
                                   ![p] = IF spawned THEN "alive" ELSE "failed"]
  /\ UNCHANGED <<killed, stopRequest, stoppedSent>>
  /\ UNCHANGED <<recVars, selVars, parVars, namVars, exeVars>>

\* recordingProcess.on('error', ...) of child process p, whose spawn failed:
\* this.recordingProcess = null; 'recording-error' and 'recording-stopped' are
\* sent.
ChildError(p) ==
  /\ childState[p] = "failed"
  /\ childState' = [childState EXCEPT ![p] = "errored"]
  /\ recordingProcess' = 0
  /\ SendStopped(p)
  /\ UNCHANGED <<killed, stopRequest>>
  /\ UNCHANGED <<recVars, selVars, parVars, namVars, exeVars>>

\* Child process p ends, by itself (the user closes the codegen window) or by
\* a signal; recordingProcess.on('exit', ...) only logs.
ChildExit(p) ==
  /\ childState[p] = "alive"
  /\ childState' = [childState EXCEPT ![p] = "exited"]
  /\ UNCHANGED <<recordingProcess, killed, stopRequest, stoppedSent>>
  /\ UNCHANGED <<recVars, selVars, parVars, namVars, exeVars>>

\* recordingProcess.on('close', ...) of child process p, after it ended or
\* after its 'error': this.recordingProcess = null; 'recording-stopped' is sent.
ChildClose(p) ==
  /\ childState[p] \in {"exited", "errored"}
  /\ childState' = [childState EXCEPT ![p] = "closed"]
  /\ recordingProcess' = 0
  /\ SendStopped(p)
  /\ UNCHANGED <<killed, stopRequest>>
  /\ UNCHANGED <<recVars, selVars, parVars, namVars, exeVars>>

\* ipcMain.handle('stop-recording'), up to its await: without recordingProcess
\* it returns; else recordingProcess.cleanup() is called, which returns true
\* at once when .killed is set, and else sends SIGTERM (kill() sets .killed
\* when the process is there to be signalled) and waits 2 s.
StopRecording(s) ==
  /\ stopRequest[s].pc = "none"
  /\ \A r \in StopRequests : r < s => stopRequest[r].pc # "none"
  /\ IF recordingProcess = 0
       THEN /\ stopRequest' = [stopRequest EXCEPT ![s] = [pc |-> "done", target |-> 0]]
            /\ UNCHANGED killed
       ELSE /\ stopRequest' = [stopRequest EXCEPT
                                 ![s] = [pc |-> IF recordingProcess \in killed
                                                  THEN "cleaned" ELSE "waiting",
                                         target |-> recordingProcess]]
            /\ killed' = IF childState[recordingProcess] = "alive"
                           THEN killed \cup {recordingProcess} ELSE killed
  /\ UNCHANGED <<recordingProcess, childState, stoppedSent>>
  /\ UNCHANGED <<recVars, selVars, parVars, namVars, exeVars>>

\* cleanup() after its 2 s: isProcessRunning, and for a process that still
\* runs killProcessTree(pid, 'SIGKILL'), which ends it or fails.
cleanup(child, early, killWorks) ==
  IF ~early /\ childState[child] = "alive" /\ killWorks
    THEN [childState EXCEPT ![child] = "exited"]
    ELSE childState

\* The rest of the stop-recording handler, once cleanup() has resolved:
\* this.recordingProcess = null; 'recording-stopped' is sent; the result is
\* returned.
StopResume(s, killWorks) ==
  /\ stopRequest[s].pc \in {"cleaned", "waiting"}
  /\ childState' = cleanup(stopRequest[s].target, stopRequest[s].pc = "cleaned", killWorks)
  /\ recordingProcess' = 0
  /\ SendStopped(stopRequest[s].target)
  /\ stopRequest' = [stopRequest EXCEPT ![s].pc = "done"]
  /\ UNCHANGED killed
  /\ UNCHANGED <<recVars, selVars, parVars, namVars, exeVars>>

IpcNext ==
  \/ \E spawned \in BOOLEAN : StartRecording(spawned)
  \/ \E p \in Pids : ChildError(p)
  \/ \E p \in Pids : ChildExit(p)
  \/ \E p \in Pids : ChildClose(p)
  \/ \E s \in StopRequests : StopRecording(s)
  \/ \E s \in StopRequests, killWorks \in BOOLEAN : StopResume(s, killWorks)

\* ======================================================= TEST EXECUTOR ===
\* The run() calls; the Playwright process run r spawns is process r.
Runs == 1..MaxRuns
Timers == 1..MaxTimers

NoTimer == [pc |-> "none", armedFor |-> 0]

\* constructor: isRunning = false; currentProcess = null.
ExeIdle ==
  /\ isRunning = FALSE
  /\ currentProcess = 0
  /\ runPc = [r \in Runs |-> "none"]
  /\ testProcess = [r \in Runs |-> "none"]
  /\ killTimers = [t \in Timers |-> NoTimer]
  /\ forcedKills = {}

AppIdle == IpcIdle /\ ExeIdle

\* The run() calls that are between their start and their completion.
InProgress == {r \in Runs : runPc[r] \in {"preparing", "executing", "parsing"}}

\* run() with the test of isRunning inside the try: the finally of the call
\* that is rejected clears the flag and the process.
RunCall_GuardInsideTry(r) ==
  /\ runPc[r] = "none"
  /\ \A q \in Runs : q < r => runPc[q] # "none"
  /\ IF isRunning
       THEN /\ runPc' = [runPc EXCEPT ![r] = "rejected"]
            /\ isRunning' = FALSE
            /\ currentProcess' = 0
       ELSE /\ runPc' = [runPc EXCEPT ![r] = "preparing"]
            /\ isRunning' = TRUE
            /\ UNCHANGED currentProcess
  /\ UNCHANGED <<testProcess, killTimers, forcedKills>>
  /\ UNCHANGED <<recVars, selVars, parVars, namVars, ipcVars>>

\* run(), up to its first await: if (this.isRunning) throw new Error('Test
\* execution already in progress'), before the try; else isRunning = true and
\* validateEnvironment() is awaited.
RunCall(r) ==
  /\ runPc[r] = "none"
  /\ \A q \in Runs : q < r => runPc[q] # "none"
  /\ IF isRunning
       THEN /\ runPc' = [runPc EXCEPT ![r] = "rejected"]
            /\ UNCHANGED isRunning
       ELSE /\ runPc' = [runPc EXCEPT ![r] = "preparing"]
            /\ isRunning' = TRUE
  /\ UNCHANGED <<currentProcess, testProcess, killTimers, forcedKills>>
  /\ UNCHANGED <<recVars, selVars, parVars, namVars, ipcVars>>

\* finally { this.isRunning = false; this.currentProcess = null; }
Finally ==
  /\ isRunning' = FALSE
  /\ currentProcess' = 0

\* validateEnvironment, discoverTestFiles (no file found), prepareExecution or
\* buildCommandArgs throws: catch emits and rethrows, finally runs.
PrepareFails(r) ==
  /\ runPc[r] = "preparing"
  /\ runPc' = [runPc EXCEPT ![r] = "failed"]
  /\ Finally
  /\ UNCHANGED <<testProcess, killTimers, forcedKills>>
  /\ UNCHANGED <<recVars, selVars, parVars, namVars, ipcVars>>

\* executePlaywright(args): this.currentProcess = spawn('npx', args, ...), the
\* handlers are attached, the promise is awaited. A spawn that fails gives a
\* process that never runs and emits 'error'.
ExecutePlaywright(r, spawned) ==
  /\ runPc[r] = "preparing"
  /\ runPc' = [runPc EXCEPT ![r] = "executing"]
  /\ currentProcess' = r
  /\ testProcess' = [testProcess EXCEPT ![r] = IF spawned THEN "alive" ELSE "failed"]
  /\ UNCHANGED <<isRunning, killTimers, forcedKills>>
  /\ UNCHANGED <<recVars, selVars, parVars, namVars, ipcVars>>

\* Process p ends, by itself or by a signal.
TestExit(p) ==
  /\ testProcess[p] = "alive"
  /\ testProcess' = [testProcess EXCEPT ![p] = "exited"]
  /\ UNCHANGED <<isRunning, currentProcess, runPc, killTimers, forcedKills>>
  /\ UNCHANGED <<recVars, selVars, parVars, namVars, ipcVars>>

\* currentProcess.on('close', ...) of process p: this.currentProcess = null;
\* code 0 or 1 resolves the promise and run() goes on to parseResults(); any
\* other code rejects it and run() ends by catch and finally. A promise that
\* 'error' has settled stays as it is.
TestClose(p, goodCode) ==
  /\ testProcess[p] \in {"exited", "errored"}
  /\ testProcess' = [testProcess EXCEPT ![p] = "closed"]
  /\ IF runPc[p] = "executing"
       THEN IF goodCode
              THEN /\ runPc' = [runPc EXCEPT ![p] = "parsing"]
                   /\ currentProcess' = 0
                   /\ UNCHANGED isRunning
              ELSE /\ runPc' = [runPc EXCEPT ![p] = "failed"]
                   /\ Finally
       ELSE /\ currentProcess' = 0
            /\ UNCHANGED <<isRunning, runPc>>
  /\ UNCHANGED <<killTimers, forcedKills>>
  /\ UNCHANGED <<recVars, selVars, parVars, namVars, ipcVars>>

\* currentProcess.on('error', ...) of process p, whose spawn failed:
\* this.currentProcess = null; reject(error), and run() ends by catch and
\* finally.
TestError(p) ==
  /\ testProcess[p] = "failed"
  /\ testProcess' = [testProcess EXCEPT ![p] = "errored"]
  /\ runPc' = [runPc EXCEPT ![p] = "failed"]
  /\ Finally
  /\ UNCHANGED <<killTimers, forcedKills>>
  /\ UNCHANGED <<recVars, selVars, parVars, namVars, ipcVars>>

\* await this.parseResults() resolves (emit 'end', return) or throws; finally.
ParseDone(r, parsed) ==
  /\ runPc[r] = "parsing"
  /\ runPc' = [runPc EXCEPT ![r] = IF parsed THEN "done" ELSE "failed"]
  /\ Finally
  /\ UNCHANGED <<testProcess, killTimers, forcedKills>>
  /\ UNCHANGED <<recVars, selVars, parVars, namVars, ipcVars>>

\* stop(): with a currentProcess, kill('SIGTERM') (the process may end at any
\* time after it), setTimeout(..., 10000), emit 'stopped'.
ExecutorStop(t) ==
  /\ killTimers[t].pc = "none"
  /\ \A u \in Timers : u < t => killTimers[u].pc # "none"
  /\ currentProcess # 0
  /\ killTimers' = [killTimers EXCEPT ![t] = [pc |-> "armed", armedFor |-> currentProcess]]
  /\ UNCHANGED <<isRunning, currentProcess, runPc, testProcess, forcedKills>>
  /\ UNCHANGED <<recVars, selVars, parVars, namVars, ipcVars>>

\* The callback of the timer of stop(), 10 s later:
\* if (this.currentProcess) this.currentProcess.kill('SIGKILL').
TimerFires(t) ==
  /\ killTimers[t].pc = "armed"
  /\ killTimers' = [killTimers EXCEPT ![t].pc = "fired"]
  /\ IF currentProcess # 0
       THEN /\ forcedKills' = forcedKills \cup
                  {[armedFor |-> killTimers[t].armedFor, killedProcess |-> currentProcess]}
            /\ testProcess' = [testProcess EXCEPT
                 ![currentProcess] = IF @ = "alive" THEN "exited" ELSE @]
       ELSE UNCHANGED <<forcedKills, testProcess>>
  /\ UNCHANGED <<isRunning, currentProcess, runPc>>
  /\ UNCHANGED <<recVars, selVars, parVars, namVars, ipcVars>>

ExecutorNext ==
  \/ \E r \in Runs : RunCall(r)
  \/ \E r \in Runs : PrepareFails(r)
  \/ \E r \in Runs, spawned \in BOOLEAN : ExecutePlaywright(r, spawned)
  \/ \E p \in Runs : TestExit(p)
  \/ \E p \in Runs, goodCode \in BOOLEAN : TestClose(p, goodCode)
  \/ \E p \in Runs : TestError(p)
  \/ \E r \in Runs, parsed \in BOOLEAN : ParseDone(r, parsed)
  \/ \E t \in Timers : ExecutorStop(t)
  \/ \E t \in Timers : TimerFires(t)

\* The caller's startRecording/stopRecording calls and their steps.
LifecycleNext ==
  \/ \E c \in Calls : StartCall(c)
  \/ \E c \in Calls, ok \in BOOLEAN : LaunchDone(c, ok)
  \/ \E c \in Calls, ok \in BOOLEAN : ContextDone(c, ok)
  \/ \E c \in Calls, ok \in BOOLEAN : PageDone(c, ok)
  \/ \E c \in Calls, ok \in BOOLEAN : GotoDone(c, ok)
  \/ StopCall
  \/ WriteArtifact
  \/ \E ok \in BOOLEAN : GenerateDone(ok)
  \/ CloseContextDone
  \/ CloseBrowserDone

\* One recording session (the first startRecording call), stopRecording calls,
\* and the events of the session's page with their handlers.
SessionNext ==
  \/ StartCall(1)
  \/ \E ok \in BOOLEAN : LaunchDone(1, ok)
  \/ \E ok \in BOOLEAN : ContextDone(1, ok)
  \/ \E ok \in BOOLEAN : PageDone(1, ok)
  \/ \E ok \in BOOLEAN : GotoDone(1, ok)
  \/ StopCall
  \/ WriteArtifact
  \/ \E ok \in BOOLEAN : GenerateDone(ok)
  \/ CloseContextDone
  \/ CloseBrowserDone
  \/ \E kind \in EventKinds : Deliver(1, kind)
  \/ \E e \in Events : InfoDone(e)
  \/ \E e \in Events, ok \in BOOLEAN : SelectorDone(e, ok)
  \/ \E e \in Events, ok \in BOOLEAN : ValueDone(e, ok)

\* Page-object synthesis, then optimizeActions called twice, on one recording.
ParserNext ==
  \/ ExtractPageObjects
  \/ OptimizeCall
  \/ RemoveRedundant
  \/ GroupSequential
  \/ AddWaits
  \/ OptimizeForms
  \/ OptimizeNav
  \/ ConvertSteps
  \/ OptimizeAgain

vars == <<recVars, selVars, parVars, namVars, appVars>>

\* Life cycle of the recorder under any interleaving of start and stop calls.
LifecycleInit == RecInit /\ SelIdle /\ ParIdle /\ NamIdle /\ AppIdle
SpecLifecycle == LifecycleInit /\ [][LifecycleNext]_vars

\* One recording session with its page events.
SessionInit == RecInit /\ SelIdle /\ ParIdle /\ NamIdle /\ AppIdle
SpecSession == SessionInit /\ [][SessionNext]_vars

\* One generateSelector call on every page of the bounded universe.
SelectorInit == SelInit /\ RecInit /\ ParIdle /\ NamIdle /\ AppIdle
SpecSelector == SelectorInit /\ [][SelNext]_vars

\* The page keys of every pair of URLs of the bounded universe.
PageKeysStart == PageKeysInit /\ RecInit /\ SelIdle /\ NamIdle /\ AppIdle
SpecPageKeys == PageKeysStart /\ [][PageKeysNext]_vars

\* The action parser on every recording of the bounded universe.
ParInit == ParStart(RecordedKinds)
ParserInit == ParInit /\ RecInit /\ SelIdle /\ NamIdle /\ AppIdle
SpecParser == ParserInit /\ [][ParserNext]_vars

\* The action parser on records of the other shapes.
OtherInit == ParStart(OtherKinds) /\ RecInit /\ SelIdle /\ NamIdle /\ AppIdle
SpecParserOther == OtherInit /\ [][ParserNext]_vars

\* The code generator on a recording: the page objects and their optimization.
GeneratorInit == ParStart(AnonymousKinds) /\ RecInit /\ SelIdle /\ NamIdle /\ AppIdle
SpecGenerator == GeneratorInit /\ [][GeneratorNext]_vars

\* The Electron main process under any interleaving of the renderer's requests
\* and the events of the child processes.
ElectronInit == IpcIdle /\ ExeIdle /\ RecInit /\ SelIdle /\ ParIdle /\ NamIdle
SpecElectron == ElectronInit /\ [][IpcNext]_vars

\* One TestExecutor under any interleaving of run() and stop() calls, process
\* events and timers.
ExecutorInit == ExeIdle /\ IpcIdle /\ RecInit /\ SelIdle /\ ParIdle /\ NamIdle
SpecExecutor == ExecutorInit /\ [][ExecutorNext]_vars

\* The method name of one action, inferred by the parser and by the generator.
NamingInit == NamInit /\ RecInit /\ SelIdle /\ ParIdle /\ AppIdle
SpecNaming == NamingInit /\ [][NamingNext]_vars

\* ============================================================== CLAIMS ===

\* C1: startRecording called while a recording is active (isRecording true)
\* fails immediately: the step that enters the call ends it with an error and
\* launches nothing.
C1_StartWhileRecordingFailsFast ==
  [][\A c \in Calls :
       (isRecording /\ callPc[c] = "none" /\ callPc'[c] # "none")
         => callPc'[c] = "failed"]_vars

\* C2: whenever startRecording fails at any of its steps, isRecording is false
\* after the failed call; stated for a recorder on which this call is the only
\* startRecording call made, so that no other session accounts for the flag.
C2_FailedStartLeavesIdle ==
  \A c \in Calls :
    (callPc[c] = "failed" /\ \A d \in Calls \ {c} : callPc[d] = "none")
      => ~isRecording

\* C3: on every exit path the browser and its context end up closed: after a
\* startRecording that failed, and after a stopRecording whose generation threw,
\* no browser or context opened by the session remains open.
C3_BrowserReleasedOnEveryExit ==
  /\ \A c \in Calls :
       callPc[c] = "failed" => (c \notin openBrowsers /\ c \notin openContexts)
  /\ (stopPc = "idle" /\ stopResult = "error")
       => (browser \notin openBrowsers /\ context \notin openContexts)

\* C4: once stopRecording is called on a recording session the recorder is idle
\* however the call ends: the step entering the call clears isRecording, no later
\* step of the call (generation succeeding or throwing, the closes) sets it
\* again, and the call ends with its result reported and no step pending.
C4_StopAlwaysReachesIdle ==
  [][/\ (stopPc = "idle" /\ stopPc' # "idle") => ~isRecording'
     /\ (stopPc # "idle" /\ stopPc' # stopPc) => isRecording' = isRecording
     /\ (stopResult = "pending" /\ stopResult' # "pending")
          => (stopPc' = "idle" /\ stopResult' \in {"ok", "error"})
     /\ (stopPc # "idle") => stopResult = "pending"]_vars

\* Witness of C4: generation threw, the error went to the caller, and the
\* recorder is idle with no stop step pending.
C4_Witness ==
  stopPc = "idle" /\ stopResult = "error" /\ ~isRecording

\* The events of the records in the buffer, in buffer order (the record of
\* startRecording's own navigation belongs to no page event).
RECURSIVE BufferEvents(_)
BufferEvents(buf) ==
  IF buf = <<>> THEN <<>>
  ELSE IF Head(buf).event = 0 THEN BufferEvents(Tail(buf))
       ELSE <<Head(buf).event>> \o BufferEvents(Tail(buf))

\* stopRecording has flagged recording inactive (only it clears the flag, and a
\* page exists once the flag was ever set).
Stopped == ~isRecording /\ page # 0

\* C5: after stopRecording has flagged recording inactive, no further Action
\* Record of a page event is appended to the recorded buffer, whatever page
\* events are delivered and whatever handlers were suspended at that moment.
C5_NoAppendAfterStop ==
  [][Stopped => Len(BufferEvents(recordedActions')) <= Len(BufferEvents(recordedActions))]_vars

\* C6: the order of Action Records in the buffer equals the order in which the
\* corresponding page events were delivered, for every interleaving of the
\* asynchronous steps of the handlers.
C6_BufferInDeliveryOrder ==
  LET evs == BufferEvents(recordedActions) IN
  \A i, j \in 1..Len(evs) : i < j => evs[i] < evs[j]

\* ---- claims about the selector generator ---------------------------------
\* The selector resolves on the page to exactly one element, the target.
ValidOnPage(sel) == Resolve(sel) = {target}

\* generateSelector returned a Selector Result.
Returned == selPc = "done"

\* The last-resort composite selector.
IsComposite(result) == result.type = "composite" /\ result.confidence = 20

\* The result of the catch block: the positional XPath.
IsErrorFallback(result) ==
  /\ result.primary.form = "position"
  /\ result.type = "xpath"
  /\ result.confidence = 10
  /\ result.fallbacks = <<>>

\* C7 as stated: every Selector Result returned by generateSelector passed the
\* Validation Protocol or is the last-resort composite selector with
\* confidence 0.2; no other unvalidated selector is returned.
C7_ValidatedOrComposite ==
  Returned => (ValidOnPage(selResult.primary) \/ IsComposite(selResult))

\* C7 amended: every Selector Result returned by generateSelector passed the
\* Validation Protocol, or is the last-resort composite selector with
\* confidence 0.2, or is the positional XPath with confidence 0.1 and no
\* fallbacks that the catch block returns when an evaluation threw.
C7_ValidatedCompositeOrErrorFallback ==
  Returned => \/ ValidOnPage(selResult.primary)
              \/ IsComposite(selResult)
              \/ IsErrorFallback(selResult)

\* Witness of C7: a validated name selector was returned for a target that has
\* a sibling on the page.
C7_Witness ==
  Returned /\ selResult.type = "name" /\ ValidOnPage(selResult.primary)

\* The candidate of strategy k exists and would pass validation on the page.
CandidateValid(k) ==
  LET info == getElementInfo(target) IN
  /\ ~(k = 2 /\ IdSelectorThrows(info))
  /\ Strategy(k, info) # Null
  /\ ValidOnPage(Strategy(k, info).selector)

\* The result is the validated candidate of the strategy the loop stopped at.
StrategyResult ==
  Returned /\ ~IsComposite(selResult) /\ ~IsErrorFallback(selResult)

\* C8 as stated: the primary selector has a confidence at least as high as that
\* of any other strategy's candidate that would pass validation (stated for
\* calls in which no round trip threw).
C8_PrimaryHasHighestConfidence ==
  (StrategyResult /\ failures = 0) =>
    \A k \in 1..NumStrategies :
      CandidateValid(k) =>
        selResult.confidence >= Strategy(k, getElementInfo(target)).confidence

\* C8 amended: strategies are tried in the fixed order preferred attribute, id,
\* name, role, text, css, xpath and the primary is the candidate of the first
\* one that validates (an earlier candidate that would validate was rejected by
\* a throwing round trip); its confidence is at least that of every later
\* strategy's validating candidate, except that a name selector (0.7) comes
\* before a role-text candidate (0.75) and a role selector (0.6) before a
\* tag-bound text candidate (0.65).
C8_FirstValidatingInCodeOrder ==
  StrategyResult =>
    LET info == getElementInfo(target) IN
    /\ selResult.primary = Strategy(strategyIndex, info).selector
    /\ \A k \in 1..(strategyIndex - 1) : CandidateValid(k) => k \in failedChecks
    /\ \A k \in (strategyIndex + 1)..NumStrategies :
         CandidateValid(k) =>
           \/ selResult.confidence >= Strategy(k, info).confidence
           \/ selResult.type = "name" /\ Strategy(k, info).type = "role-text"
           \/ selResult.type = "role" /\ Strategy(k, info).type = "text"

\* Witness of C8: an id selector was returned although the name candidate, tried
\* later, validates too.
C8_Witness ==
  StrategyResult /\ selResult.type = "id" /\ CandidateValid(3)

\* C9: generateSelector never propagates an exception to its caller, whatever
\* page evaluation fails.
C9_NeverThrows == selPc # "thrown"

\* /^[a-f0-9]{8,}$/
HexDigestId(id) ==
  Len(Chars(id)) >= 8 /\ AllIn(Chars(id), 1, Len(Chars(id)), Digit \cup LowerHex)

\* The selector string contains the id as an id condition.
MentionsId(sel, id) ==
  \/ sel.form = "attr" /\ sel.attr = "id" /\ sel.value = id
  \/ sel.form \in {"id", "xpath"} /\ sel.id = id

\* C10: an element id matching /^[a-f0-9]{8,}$/ is never the basis of a
\* selector: neither the primary selector nor any fallback returned by
\* generateSelector contains that id.
C10_HexIdNeverUsed ==
  (Returned /\ HexDigestId(dom[target].id)) =>
    /\ ~MentionsId(selResult.primary, dom[target].id)
    /\ \A k \in DOMAIN selResult.fallbacks :
         ~MentionsId(selResult.fallbacks[k].selector, dom[target].id)

\* The attribute selector [data-testid="<value>"] of the target.
TestIdSelector ==
  [EmptySelector EXCEPT !.form = "attr", !.attr = "data-testid",
                        !.value = dom[target].testid]

\* The target has a data-testid and a stable id, its data-testid selector was
\* tried by the strategy loop and its validation succeeded.
TestIdValidated ==
  /\ dom[target].testid # ""
  /\ dom[target].id # "" /\ isStableId(dom[target].id)
  /\ strategyIndex >= 1
  /\ 1 \notin failedChecks
  /\ ValidOnPage(TestIdSelector)

\* The Selector Result is the data-attribute selector of the data-testid.
IsTestIdResult(result) ==
  /\ result.primary = TestIdSelector
  /\ result.type = "data-attribute"
  /\ result.confidence = 90

\* C11 as stated: for an element that has a data-testid whose attribute
\* selector validates and also has a stable id, generateSelector returns
\* [data-testid="<value>"] with kind data-attribute and confidence 0.9, not the
\* id selector.
C11_TestIdChosenOverId ==
  (Returned /\ TestIdValidated) => IsTestIdResult(selResult)

\* C11 amended: for such an element generateSelector returns the
\* data-attribute selector with confidence 0.9 and never the id selector; the
\* one other result is the positional XPath of the catch block, returned when
\* a page evaluation threw while the fallbacks were generated.
C11_TestIdChosenUnlessEvaluationThrows ==
  (Returned /\ TestIdValidated) =>
    \/ IsTestIdResult(selResult)
    \/ IsErrorFallback(selResult) /\ failures > 0

\* Witness of C11: the data-testid selector was returned for a target that
\* also has a stable id.
C11_Witness ==
  Returned /\ TestIdValidated /\ IsTestIdResult(selResult)

\* ---- claims about stop-time generation and the handlers ------------------
\* C18: a file-write failure for one artifact during stop-time generation does
\* not abort the remaining artifacts: when writing one page-object file fails,
\* the other page-object files, the test file and the summary report are still
\* generated.
C18_WriteFailureDoesNotAbort ==
  (stopPc = "idle" /\ stopResult = "error" /\ artifact.kind = "pageObject") =>
    /\ \A name \in PageObjectNames \ {artifact.name} : PageObjectFile(name) \in written
    /\ TestFile \in written
    /\ SummaryReport \in written

\* C19: stopRecording called while no recording is in progress returns the
\* error 'No recording in progress' and changes nothing: the action buffer, the
\* page objects, the browser handles and the idle state are as before the call,
\* and no generation runs.
C19_StopWhenIdleChangesNothing ==
  [][(stopPc = "idle" /\ ~isRecording /\ stopResult' # stopResult) =>
       /\ stopResult' = "notRecording"
       /\ UNCHANGED <<isRecording, browser, context, page, testName, recordedActions,
                      pageObjects, callPc, stopPc, openBrowsers, openContexts,
                      openPages, closing, delivered, handlerPc, artifact, written>>]_vars

\* Witness of C19: stopRecording was refused on a recorder that holds the
\* buffer and the handles of an earlier session.
C19_Witness ==
  /\ stopResult = "notRecording"
  /\ ~isRecording
  /\ browser # 0
  /\ Len(recordedActions) > 0

\* C20: selector generation is never run for two actions at once: at any
\* moment at most one event handler is inside generateSelector.
C20_OneSelectorGenerationAtATime ==
  Cardinality({e \in Events : handlerPc[e] = "selector"}) <= 1

\* ---- claims about the action parser ---------------------------------------
\* optimizeActions returned the Test Steps of the recording.
Parsed == parserPc = "returned"

\* Positions a..b of the recording are a maximal run of clicks with one
\* primary selector.
IsClickRun(a, b) ==
  /\ a <= b
  /\ \A i \in a..b : recording[i].type = "click" /\ recording[i].selector = recording[a].selector
  /\ a > 1 => ~(recording[a - 1].type = "click"
                /\ recording[a - 1].selector = recording[a].selector)
  /\ b < Len(recording) => ~(recording[b + 1].type = "click"
                             /\ recording[b + 1].selector = recording[a].selector)

ClickRuns ==
  {r \in (DOMAIN recording) \X (DOMAIN recording) : IsClickRun(r[1], r[2])}

\* The click Test Steps built from the clicks at positions a..b (the timestamp
\* of a Test Step is that of its Action Record, and every record has its own).
ClickStepsOf(a, b) ==
  {k \in DOMAIN testSteps :
     /\ testSteps[k].type = "click"
     /\ \E i \in a..b : testSteps[k].timestamp = recording[i].timestamp}

\* C12 as stated: for any input in which two or more click Action Records with
\* identical primary selector occur consecutively, optimizeActions outputs
\* exactly one click Test Step for that run, the one built from the last click
\* of the run.
C12_OneClickStepPerRun ==
  Parsed =>
    \A r \in ClickRuns :
      r[1] < r[2] =>
        /\ Cardinality(ClickStepsOf(r[1], r[2])) = 1
        /\ \A k \in ClickStepsOf(r[1], r[2]) :
             testSteps[k].timestamp = recording[r[2]].timestamp

\* The click records of a list, in order.
ClicksOf(actions) == SelectSeq(actions, LAMBDA a : a.type = "click")

\* The last click of every maximal run of the recording, in order.
LastClicks ==
  SelectSeq([i \in DOMAIN recording |->
               IF \E r \in ClickRuns : r[2] = i THEN recording[i] ELSE EmptyAction],
            LAMBDA a : a.type = "click")

RECURSIVE ClickTargets(_, _)
\* The targets of the click statements of the Test Steps from step k on, in
\* order: those of the click steps and those inside the form_sequence steps.
ClickTargets(steps, k) ==
  IF k > Len(steps) THEN <<>>
  ELSE LET clicks == SelectSeq(steps[k].code, LAMBDA st : st.op = "click") IN
       [j \in DOMAIN clicks |-> clicks[j].target] \o ClickTargets(steps, k + 1)

\* C12 amended: of a run of consecutive clicks with identical primary selector
\* exactly one click survives, the last click of the run: redundancy
\* elimination keeps that record only, and the output holds it once, as a
\* click Test Step of its own or, when it is a click on a form element folded
\* with neighbouring form actions, as one click statement of a form_sequence
\* Test Step.
C12_LastClickOfRunSurvivesOnce ==
  /\ parserPc = "filtered" => ClicksOf(optimizedActions) = LastClicks
  /\ Parsed =>
       /\ ClickTargets(testSteps, 1) = [j \in DOMAIN LastClicks |-> LastClicks[j].selector]
       /\ \A r \in ClickRuns :
            /\ Cardinality(ClickStepsOf(r[1], r[2])) <= 1
            /\ \A k \in ClickStepsOf(r[1], r[2]) :
                 testSteps[k].timestamp = recording[r[2]].timestamp

\* Witness of C12: a recording with a run of two clicks was parsed and the run
\* gave one click Test Step.
C12_Witness ==
  /\ Parsed
  /\ \E r \in ClickRuns : r[1] < r[2] /\ Cardinality(ClickStepsOf(r[1], r[2])) = 1

C14_NavigationFollowedByNetworkIdle ==
  parserPc = "waits" =>
    \A i \in DOMAIN optimizedActions :
      optimizedActions[i].type = "navigation" =>
        /\ i < Len(optimizedActions)
        /\ optimizedActions[i + 1].type = "wait"
        /\ optimizedActions[i + 1].strategy = "networkidle"

\* The recording navigation to /login, input #user, input #pass, click #submit.
IsLoginScenario ==
  /\ Len(recording) = 4
  /\ recording[1].type = "navigation"
  /\ recording[2].type = "input" /\ recording[2].selector = "#user"
  /\ recording[3].type = "input" /\ recording[3].selector = "#pass"
  /\ recording[4].type = "click" /\ recording[4].selector = "#submit"

\* C15: optimizeActions on [navigation to /login, input on #user with value
\* alice, input on #pass with value secret, click on #submit whose element has
\* type=submit] yields exactly the navigation, one form_sequence holding enter
\* user, enter pass and click submit, then a networkidle wait, in this order.
C15_LoginScenarioSteps ==
  (Parsed /\ IsLoginScenario) =>
    /\ Len(testSteps) = 3
    /\ testSteps[1].type = "navigation"
    /\ testSteps[2].type = "form_sequence"
    /\ testSteps[2].code = <<[op |-> "fill", target |-> "#user", value |-> "alice"],
                             [op |-> "fill", target |-> "#pass", value |-> "secret"],
                             [op |-> "click", target |-> "#submit", value |-> ""]>>
    /\ testSteps[3].type = "wait"
    /\ testSteps[3].code = <<[op |-> "waitForLoadState", target |-> "",
                              value |-> "networkidle"]>>

\* ---- claims about page keys and page objects -------------------------------
\* The two URLs have the same scheme, host and path.
SamePath == /\ pageKeys.urls[1].origin = pageKeys.urls[2].origin
            /\ pageKeys.urls[1].path = pageKeys.urls[2].path

\* C17: page keys are path-based: any two URLs that have the same path and
\* differ only in their query string map to the same page key, both in the
\* recorder's getPageObjectName and in the generator's getPageKey.
C17_PageKeyIgnoresQuery ==
  SamePath =>
    /\ pageKeys.names # <<>> => pageKeys.names[1] = pageKeys.names[2]
    /\ pageKeys.keys # <<>> => pageKeys.keys[1] = pageKeys.keys[2]

\* Witness of C17: /login and /login?x=1 were keyed by the recorder and by the
\* generator.
C17_Witness ==
  /\ pageKeys.urls[1] = LoginUrl
  /\ pageKeys.urls[2] = [LoginUrl EXCEPT !.query = "?x=1"]
  /\ pageKeys.names # <<>> /\ pageKeys.names[1] = pageKeys.names[2]
  /\ pageKeys.keys = << <<"l", "o", "g", "i", "n">>, <<"l", "o", "g", "i", "n">> >>

\* The page objects of the page key of the /login navigation.
LoginPageObjects ==
  {m \in DOMAIN pageObjectsData : pageObjectsData[m].key = getPageKey(recording[1])}

\* C16: for the recording [navigation to /login, input #user, input #pass,
\* click #submit on a type=submit element], the page object synthesized for
\* /login has exactly 3 element bindings and a method named submitForm.
C16_LoginPageObjectHasThreeBindings ==
  (IsLoginScenario /\ parserPc # "recorded") =>
    /\ LoginPageObjects # {}
    /\ \A m \in LoginPageObjects :
         /\ Len(pageObjectsData[m].elements) = 3
         /\ \E k \in DOMAIN pageObjectsData[m].methods :
              pageObjectsData[m].methods[k].name.verb = "submitForm"

\* ---- claims about the fallbacks of a Selector Result -----------------------
\* C21: the fallbacks of every Selector Result returned by generateSelector
\* number at most two, each passed the Validation Protocol for the same
\* element, each differs from the primary selector, and no two fallbacks are
\* equal.
C21_FallbacksFewValidatedDistinct ==
  Returned =>
    LET fallbacks == selResult.fallbacks IN
    /\ Len(fallbacks) <= 2
    /\ \A k \in DOMAIN fallbacks :
         /\ ValidOnPage(fallbacks[k].selector)
         /\ fallbacks[k].selector # selResult.primary
    /\ \A k, m \in DOMAIN fallbacks :
         fallbacks[k].selector = fallbacks[m].selector => k = m

\* Witness of C21: a text primary was returned with two fallbacks, the XPath
\* and the CSS candidates, the text candidate being the primary itself.
C21_Witness ==
  /\ Returned
  /\ selResult.type = "text"
  /\ Len(selResult.fallbacks) = 2
  /\ selResult.fallbacks[1].type = "xpath"
  /\ selResult.fallbacks[2].type = "css"

\* The class tokens a css selector names.
SelectorClassTokens(sel) ==
  UNION {Range(sel.classes[k]) \ LineBreaks : k \in DOMAIN sel.classes}

\* The css-kind selectors of the returned Selector Result.
CssSelectorsReturned ==
  (IF selResult.type = "css" THEN {selResult.primary} ELSE {})
    \cup {selResult.fallbacks[k].selector :
            k \in {m \in DOMAIN selResult.fallbacks : selResult.fallbacks[m].type = "css"}}

\* C22: no class token that matches an unstable-class pattern (long hex string,
\* CSS-module suffix, css-<hex>, long PascalCase, leading digit) appears in any
\* css-kind selector produced for an element, as primary or as fallback.
C22_NoUnstableClassInCssSelector ==
  Returned =>
    \A sel \in CssSelectorsReturned :
      \A token \in SelectorClassTokens(sel) : IsStableClass(<<token>>)

\* ---- claims about grouping and conversion ----------------------------------
RECURSIVE Flatten(_)
\* The actions of a grouped list, each form_sequence replaced by its sub-actions.
Flatten(actions) ==
  IF actions = <<>> THEN <<>>
  ELSE (IF Head(actions).type = "form_sequence"
          THEN Head(actions).actions ELSE <<Head(actions)>>)
         \o Flatten(Tail(actions))

RECURSIVE AllCode(_)
\* The statements of the steps that are not synthetic waits, in step order.
AllCode(steps) ==
  IF steps = <<>> THEN <<>>
  ELSE (IF Head(steps).type = "wait" THEN <<>> ELSE Head(steps).code)
         \o AllCode(Tail(steps))

\* The two sequences hold the same values, each as many times.
SameBag(a, b) ==
  /\ Len(a) = Len(b)
  /\ \A x \in Range(a) \cup Range(b) :
       Cardinality({i \in DOMAIN a : a[i] = x}) = Cardinality({i \in DOMAIN b : b[i] = x})

\* The actions that survive redundancy elimination.
Survivors == removeRedundantActions(recording)

\* C24: grouping and conversion lose and duplicate nothing: every action that
\* survives redundancy elimination appears exactly once in the Test Steps, as
\* its own step or as a sub-action of exactly one form_sequence; a
\* form_sequence holds only form-element actions that were contiguous in the
\* input, no group spans a navigation, and the Test Step indices are 1..n in
\* output order.
C24_GroupingLosesNothing ==
  /\ parserPc = "grouped" =>
       /\ Flatten(optimizedActions) = Survivors
       /\ \A k \in DOMAIN optimizedActions :
            optimizedActions[k].type = "form_sequence" =>
              /\ Len(optimizedActions[k].actions) > 1
              /\ \A m \in DOMAIN optimizedActions[k].actions :
                   LET sub == optimizedActions[k].actions[m] IN
                   /\ sub.type \in {"input", "select", "click"}
                   /\ isFormElement(sub.element)
  /\ parserPc = "forms" =>
       SameBag(SelectSeq(Flatten(optimizedActions), LAMBDA a : a.type # "wait"),
               Survivors)
  /\ Parsed =>
       /\ \A k \in DOMAIN testSteps : testSteps[k].id = k
       /\ SameBag(AllCode(testSteps),
                  [k \in DOMAIN Survivors |-> StatementOf(Survivors[k])])

\* Witness of C24: the parser returned the steps of a recording of which a
\* click was dropped as redundant, two form controls were folded into a
\* form_sequence, and a navigation closed the group.
C24_Witness ==
  /\ Parsed
  /\ Len(Survivors) = 3
  /\ Len(recording) = 4
  /\ Survivors[3].type = "navigation"
  /\ \E k \in DOMAIN testSteps : testSteps[k].type = "form_sequence"

\* ---- claims about form sequences and waits ---------------------------------
\* The form_sequence records of the parser's list.
FormSequences == {k \in DOMAIN optimizedActions : optimizedActions[k].type = "form_sequence"}

\* Every input sub-action precedes every select and every click sub-action.
InputsFirst(actions) ==
  \A i, j \in DOMAIN actions :
    (actions[i].type = "input" /\ actions[j].type \in {"select", "click"}) => i < j

\* C23: in every form_sequence of the parser output the sub-actions are a
\* permutation of the grouped actions in which every input sub-action precedes
\* every select sub-action and every click sub-action, whatever their original
\* timestamps and whatever form container each element belongs to.
C23_InputsBeforeSelectsAndClicks ==
  parserPc \in {"forms", "annotated"} =>
    \A k \in FormSequences : InputsFirst(optimizedActions[k].actions)

\* C25: every api_call Action Record that has a following action is
\* immediately followed by a synthetic wait of strategy response with a 5000 ms
\* timeout, and that wait record carries the api_call's URL so that the
\* generated wait matches that URL.
C25_ApiCallFollowedByResponseWait ==
  parserPc = "waits" =>
    \A k \in DOMAIN optimizedActions :
      (optimizedActions[k].type = "api_call" /\ k < Len(optimizedActions)) =>
        LET wait == optimizedActions[k + 1] IN
        /\ wait.type = "wait"
        /\ wait.strategy = "response"
        /\ wait.timeout = 5000
        /\ wait.url = optimizedActions[k].url
        /\ generateWaitCode(wait).value = optimizedActions[k].url


\* ---- claims about submit controls and method names -------------------------
\* What the specification calls a submit control.
SpecSubmitControl(element) ==
  \/ element.type = "submit"
  \/ element.tagName = "button" /\ element.type = ""
  \/ ContainsCI(element.textContent, <<"s", "u", "b", "m", "i", "t">>)

\* C26: an element is classified as a submit control exactly when its type is
\* submit, or it is a button with no type, or its text contains 'submit' in any
\* case, and the parser's classifier and the generator's classifier give the
\* same answer for every element.
C26_SubmitClassifiersAgree ==
  (naming.parserSubmit \in {"yes", "no"} /\ naming.generatorSubmit \in {"yes", "no"})
    => /\ naming.parserSubmit = naming.generatorSubmit
       /\ naming.generatorSubmit = "yes" <=> SpecSubmitControl(naming.action.element)

\* The name the specification's precedence gives.
SpecFunctionName(action) ==
  IF action.type = "navigation"
    THEN [verb |-> "navigateTo", noun |-> <<"P", "a", "g", "e">>]
  ELSE IF action.type = "click" /\ SpecSubmitControl(action.element)
    THEN [verb |-> "submitForm", noun |-> <<>>]
  ELSE IF action.type = "click" /\ action.element.textContent # <<>>
    THEN ClickName(action)
  ELSE IF action.type = "input"
    THEN [verb |-> "enter", noun |-> FieldName(action, <<"f", "i", "e", "l", "d">>)]
  ELSE IF action.type = "select"
    THEN [verb |-> "select",
          noun |-> FieldName(action, <<"d", "r", "o", "p", "d", "o", "w", "n">>)]
  ELSE [verb |-> "perform", noun |-> <<action.type>>]

\* C27: the method name follows the precedence navigation, click on a submit
\* control, click with text, input, select, anything else, and the parser's
\* inferFunctionName and the generator's return the same name for every action.
C27_BothInferTheSameName ==
  (naming.parser # NoName /\ naming.generator # NoName)
    => /\ naming.parser = naming.generator
       /\ naming.generator = SpecFunctionName(naming.action)


\* ---- claims about the methods of a page object ------------------------------
RECURSIVE SumOfCounts(_)
SumOfCounts(methods) ==
  IF methods = <<>> THEN 0 ELSE methods[1].actions + SumOfCounts(Tail(methods))

\* The methods of the page object that take the action: those named by the
\* base name of the action's inferred name.
MethodsOf(po, action) ==
  { m \in DOMAIN po.methods :
      po.methods[m].name = getBaseFunctionName(inferFunctionName(action)) }

\* C28: after merging by base name the methods of a page object have pairwise
\* distinct names, every action of the page belongs to exactly one method, the
\* methods' action counts sum to the number of the page's actions, and no
\* method has two parameters of the same name.
C28_MethodsPartitionTheActions ==
  \A p \in DOMAIN pageObjectsData :
    LET po == pageObjectsData[p] IN
    /\ \A m, n \in DOMAIN po.methods : po.methods[m].name = po.methods[n].name => m = n
    /\ \A k \in DOMAIN po.actions : Cardinality(MethodsOf(po, po.actions[k])) = 1
    /\ \A m \in DOMAIN po.methods :
         po.methods[m].actions
           = Cardinality({k \in DOMAIN po.actions : m \in MethodsOf(po, po.actions[k])})
    /\ SumOfCounts(po.methods) = Len(po.actions)
    /\ \A m \in DOMAIN po.methods :
         \A i, j \in DOMAIN po.methods[m].parameters :
           po.methods[m].parameters[i].name = po.methods[m].parameters[j].name => i = j

\* A page object whose method enterUser merged the inputs in #user (twice) and
\* in #userField, and has the two parameters user and userField.
C28_Witness ==
  \E p \in DOMAIN pageObjectsData :
    \E m \in DOMAIN pageObjectsData[p].methods :
      LET method == pageObjectsData[p].methods[m] IN
      /\ method.name = [verb |-> "enter", noun |-> <<"U", "s", "e", "r">>]
      /\ method.actions = 3
      /\ Len(method.parameters) = 2
      /\ \E k \in DOMAIN pageObjectsData[p].actions :
           pageObjectsData[p].actions[k].selector = "#userField"
      /\ Len(pageObjectsData[p].methods) = 2


\* ---- claims about the optimization of a page object ---------------------------
\* The page objects optimizePageObject has been applied to.
Optimized ==
  IF parserPc \in {"this.mergeParameters is not a function",
                   "Assignment to constant variable."}
    THEN {1} ELSE {}

\* C29: after the optimization of a page object no two of its element bindings
\* have the same primary selector and the same tag.
C29_NoTwoBindingsOfOneSelectorAndTag ==
  \A p \in Optimized :
    \A i, j \in DOMAIN pageObjectsData[p].elements :
      LET a == pageObjectsData[p].elements[i]
          b == pageObjectsData[p].elements[j]
      IN (a.selector = b.selector /\ a.type = b.type) => i = j


\* ---- claims about the page objects of a recording ------------------------------
\* The actions this.pageObjects holds, in the order they were pushed.
PageObjectActions == [i \in DOMAIN pageObjects |-> pageObjects[i].action]

\* C30: the page objects a stopRecording emits hold only what was recorded
\* since the matching startRecording (which empties recordedActions): while the
\* files of a recording are generated whose browser is the only one running,
\* every earlier one closed by its stopRecording, the actions of the page
\* objects are the recorded actions.
C30_PageObjectsHoldThisRecordingOnly ==
  (stopPc = "generate" /\ openBrowsers = {browser})
    => PageObjectActions = recordedActions


\* ---- claims about the annotations of a navigation -----------------------------
\* The primary selectors the three actions after position i have (a wait
\* record has a plain string for selector, and so no primary selector).
PrimarySelectorsAfter(actions, i) ==
  { actions[j].selector : j \in { k \in DOMAIN actions : /\ i < k /\ k <= i + 3
                                                         /\ actions[k].type # "wait"
                                                         /\ actions[k].selector # "" } }

\* C31: each navigation carries at most 3 expected elements, the selector of
\* each is the defined primary selector of one of the three actions that
\* follow the navigation in the optimized list, and no visibility assertion is
\* generated for an undefined selector.
C31_AnnotationsAreFollowingPrimarySelectors ==
  /\ parserPc \in {"annotated", "returned"} =>
       \A i \in DOMAIN optimizedActions :
         optimizedActions[i].type = "navigation" =>
           /\ Len(optimizedActions[i].expectedElements) <= 3
           /\ \A k \in DOMAIN optimizedActions[i].expectedElements :
                optimizedActions[i].expectedElements[k].selector
                  \in PrimarySelectorsAfter(optimizedActions, i)
  /\ \A s \in DOMAIN testSteps :
       \A a \in DOMAIN testSteps[s].assertions :
         testSteps[s].assertions[a].type = "visibility"
           => testSteps[s].assertions[a].target # "undefined"


\* ---- claims about redundancy elimination --------------------------------------
\* C32: the output of redundancy elimination has no adjacent pair click/click,
\* input/input or hover/click on one primary selector, and
\* removeRedundantActions applied to it changes nothing.
C32_FilteredHasNoRedundantPair ==
  parserPc = "filtered" =>
    /\ \A i \in DOMAIN optimizedActions : ~IsRedundant(optimizedActions, i)
    /\ removeRedundantActions(optimizedActions) = optimizedActions


LiveChildren == {p \in Pids : childState[p] = "alive"}

\* C34: at most one recording child process is alive at a time, and every live
\* one is the one recordingProcess refers to, so that get-recording-status
\* reports it and stop-recording can stop it.
C34_OneLiveChildAndReferenced ==
  /\ Cardinality(LiveChildren) <= 1
  /\ \A p \in LiveChildren :
       /\ getRecordingStatus.isRecording
       /\ getRecordingStatus.processId = p

\* C35: every recording started produces exactly one 'recording-stopped'
\* message, whichever of a stop-recording request, its 'close' and its 'error'
\* ends it: never more than one, and one once the process is closed.
C35_OneStoppedMessagePerRecording ==
  \A p \in Pids :
    /\ stoppedSent[p] <= 1
    /\ childState[p] = "closed" => stoppedSent[p] = 1

\* ---- claims about the TestExecutor -----------------------------------------------
\* C36: isRunning is true exactly while one run() call is between its start and
\* its completion; a run() called meanwhile is rejected and leaves the flag of
\* the run in progress; when no run is in progress, after success or failure,
\* isRunning is false and currentProcess is null.
C36_IsRunningExactlyDuringOneRun ==
  /\ Cardinality(InProgress) <= 1
  /\ isRunning <=> InProgress # {}
  /\ InProgress = {} => currentProcess = 0
  /\ \A r \in Runs : runPc[r] = "rejected" => \E q \in Runs : q < r /\ runPc[q] # "none"

\* The second run() was rejected while the first awaits its Playwright process.
C36_Witness ==
  /\ runPc[1] = "executing"
  /\ runPc[2] = "rejected"
  /\ isRunning
  /\ currentProcess = 1

\* C37: the SIGKILL of the timer of a stop() goes only to the process that was
\* running when that stop() was called, never to the process of a later run().
C37_TimerKillsItsOwnProcessOnly ==
  \A k \in forcedKills : k.killedProcess = k.armedFor

====
